---- MODULE Spec2Model ----
(***************************************************************************)
(* The Ballot indexer (backend/src/indexer/indexer.service.ts): the sync   *)
(* loop catchUpOnce, its cursor (ContractSyncState), the raw event ledger  *)
(* (OnChainEvent) and the read-model projection (BallotSnapshot, Voter,    *)
(* Vote, Proposal).  Every awaited RPC or Prisma call is one step of a     *)
(* pass, so passes started by overlapping setInterval ticks interleave at  *)
(* exactly the points where the JavaScript event loop lets them.  The      *)
(* Ballot contract the indexer follows (contracts/contracts/Ballot.sol) is *)
(* modelled with it: one transaction is one step.                          *)
(***************************************************************************)
EXTENDS Integers, Sequences, FiniteSets, TLC

\* ------------------------------------------------------------------------
\* Configuration knobs of the indexer (environment variables)
\* ------------------------------------------------------------------------
\* MAX_LOG_BLOCK_RANGE: width of one eth_getLogs range (env, default 10)
MAX_LOG_BLOCK_RANGE == 2
\* CONFIRMATIONS: blocks below the tip that are not indexed yet
CONFIRMATIONS == 2
\* RPC_MAX_RETRIES: retries of a rate-limited RPC call (env, default 8)
RPC_MAX_RETRIES == 2
\* DEPLOYMENT_BLOCK: seed of the default cursor (env, default 0 = unset)
DEPLOYMENT_BLOCK == 1

\* RPC_BACKOFF_BASE_MS: first backoff sleep of withRetry (env, default 1500)
RPC_BACKOFF_BASE_MS == 1500
\* RPC_BACKOFF_CAP_MS: longest backoff sleep of withRetry (env, default 30000)
RPC_BACKOFF_CAP_MS == 30000

\* ------------------------------------------------------------------------
\* Bounds of the model
\* ------------------------------------------------------------------------
\* catch-up passes that can be in flight at once (timer ticks are unbounded)
MaxPasses == 2
\* highest chain tip the RPC node reports
MaxTip == 5
\* crashes and non-duplicate store errors injected in one behaviour
MaxFaults == 1
\* calls of fn scripted for one withRetry call
MaxCalls == 3
\* events applied in one run of the projection on its own
MaxApplied == 3

Passes == 1..MaxPasses

Max(a, b) == IF a >= b THEN a ELSE b
Min(a, b) == IF a <= b THEN a ELSE b

\* A missing database row.
NoRow == [absent |-> TRUE]

\* ------------------------------------------------------------------------
\* The ledger: the logs the Ballot contract emitted, in block / log order.
\* vote() runs _syncStage first, so one transaction can carry StageChanged
\* and VoteCast.  The log of block 2 has the VoteCast topic and data that
\* parseLog rejects: `decodable` is what the ABI makes of a log, `name` and
\* `args` what a decoder that trusted the topic would report.
\* ------------------------------------------------------------------------
ChainLog ==
  << [blockNumber |-> 1, txHash |-> "t1", logIndex |-> 0, decodable |-> TRUE,
      name |-> "VoterRegistered", args |-> [voter |-> "v1", weight |-> 1]],
     [blockNumber |-> 2, txHash |-> "t2", logIndex |-> 0, decodable |-> FALSE,
      name |-> "VoteCast", args |-> [voter |-> "v1", proposalId |-> 1, weight |-> 1]],
     [blockNumber |-> 3, txHash |-> "t3", logIndex |-> 0, decodable |-> TRUE,
      name |-> "StageChanged", args |-> [newStage |-> 2]],
     [blockNumber |-> 3, txHash |-> "t3", logIndex |-> 1, decodable |-> TRUE,
      name |-> "VoteCast", args |-> [voter |-> "v1", proposalId |-> 0, weight |-> 1]] >>

Events == 1..Len(ChainLog)
VoterAddrs == {"chair", "v1"}
ProposalIds == {0, 1}

\* contract.queryFilter("*", fromBlock, toBlock): the indexes into ChainLog of
\* the logs of the range, in the order the node returns them.
RECURSIVE LogsFrom(_, _, _)
LogsFrom(i, fromBlock, toBlock) ==
  IF i > Len(ChainLog) THEN << >>
  ELSE IF ChainLog[i].blockNumber >= fromBlock /\ ChainLog[i].blockNumber <= toBlock
       THEN << i >> \o LogsFrom(i + 1, fromBlock, toBlock)
       ELSE LogsFrom(i + 1, fromBlock, toBlock)

QueryFilter(fromBlock, toBlock) == LogsFrom(1, fromBlock, toBlock)

\* DecodeLog that reports what the topic says without decoding the data
DecodeLogTrusting(ev) == ev.name

\* decodeLog: the event name of a log, "UnknownEvent" when the ABI has no
\* fragment for it.
DecodeLog(ev) == IF ev.decodable THEN ev.name ELSE "UnknownEvent"


\* ------------------------------------------------------------------------
\* State
\* ------------------------------------------------------------------------
VARIABLES
  tip,           \* block number the RPC node reports (provider.getBlockNumber)
  syncState,     \* the ContractSyncState row of (chainId, contractAddress)
  onChainEvent,  \* the OnChainEvent table: the recorded raw events
  readModel,     \* BallotSnapshot row and the Voter, Vote, Proposal tables
  pass,          \* the locals of each in-flight catchUpOnce call (and the history
                 \* fields pre, retries and iter)
  phase,         \* where onModuleInit stands: boot, initial, polling, dead
  faults,        \* crashes and store errors injected so far
  projected,     \* history: per log, projections started and completed
  ticked,        \* history: a timer tick started a pass since the last failure
  call,          \* one withRetry call studied on its own
  sweep,         \* the range loop of catchUpOnce studied on its own
  applied,       \* applyReadModelProjection studied on its own
  ballot         \* one deployed Ballot contract and the transactions sent to it

\* the state of the running indexer
indexerVars == << tip, syncState, onChainEvent, readModel, pass, phase, faults,
                  projected, ticked >>

\* the state of the operations studied on their own
unitVars == << call, sweep, applied, ballot >>

vars == << indexerVars, unitVars >>

\* null of a nullable column
Null == -1

\* ------------------------------------------------------------------------
\* Prisma calls of applyReadModelProjection, one operator per awaited call
\* ------------------------------------------------------------------------
\* UpsertSnapshot whose update branch is empty: the row is created, an
\* existing row keeps its lastIndexedBlock
UpsertSnapshotCreateOnly(rm, blockNumber) ==
  [rm EXCEPT !.snapshot =
     IF rm.snapshot = NoRow
     THEN [lastIndexedBlock |-> blockNumber, stage |-> 0, totalVoters |-> 0,
           totalVotes |-> 0, winnerComputed |-> FALSE, winningProposalId |-> 0]
     ELSE rm.snapshot]

\* ballotSnapshot.upsert: create the row, or set lastIndexedBlock
UpsertSnapshot(rm, blockNumber) ==
  [rm EXCEPT !.snapshot =
     IF rm.snapshot = NoRow
     THEN [lastIndexedBlock |-> blockNumber, stage |-> 0, totalVoters |-> 0,
           totalVotes |-> 0, winnerComputed |-> FALSE, winningProposalId |-> 0]
     ELSE [rm.snapshot EXCEPT !.lastIndexedBlock = blockNumber]]

\* UpdateStage that restarts the vote total with the stage
UpdateStageResetTotals(rm, args) ==
  [rm EXCEPT !.snapshot.stage = args.newStage, !.snapshot.totalVotes = 0]

\* StageChanged: ballotSnapshot.update({stage: newStage})
UpdateStage(rm, args) ==
  [rm EXCEPT !.snapshot.stage = args.newStage]

\* UpsertRegisteredVoter whose update branch writes hasVoted: false as well
UpsertRegisteredVoterReset(rm, args, blockNumber) ==
  [rm EXCEPT !.voter[args.voter] =
     [weight |-> args.weight, hasVoted |-> FALSE,
      registeredAtBlock |-> blockNumber, lastUpdatedBlock |-> blockNumber]]

\* VoterRegistered: voter.upsert (update keeps hasVoted)
UpsertRegisteredVoter(rm, args, blockNumber) ==
  [rm EXCEPT !.voter[args.voter] =
     IF rm.voter[args.voter] = NoRow
     THEN [weight |-> args.weight, hasVoted |-> FALSE,
           registeredAtBlock |-> blockNumber, lastUpdatedBlock |-> blockNumber]
     ELSE [rm.voter[args.voter] EXCEPT !.weight = args.weight,
                                       !.registeredAtBlock = blockNumber,
                                       !.lastUpdatedBlock = blockNumber]]

\* VoterRegistered: ballotSnapshot.update({totalVoters: {increment: 1}})
IncrementTotalVoters(rm) ==
  [rm EXCEPT !.snapshot.totalVoters = @ + 1]

\* UpsertVote with update: {}: the first vote of a voter stays
UpsertVoteKeepFirst(rm, args, blockNumber, txHash) ==
  IF rm.vote[args.voter] # NoRow THEN rm
  ELSE [rm EXCEPT !.vote[args.voter] =
          [proposalId |-> args.proposalId, weight |-> args.weight,
           txHash |-> txHash, blockNumber |-> blockNumber]]

\* VoteCast: vote.upsert, one row per voter, overwritten by a later event
UpsertVote(rm, args, blockNumber, txHash) ==
  [rm EXCEPT !.vote[args.voter] =
     [proposalId |-> args.proposalId, weight |-> args.weight,
      txHash |-> txHash, blockNumber |-> blockNumber]]

\* VoteCast: voter.upsert marking the voter as voted
MarkVoterVoted(rm, args, blockNumber) ==
  [rm EXCEPT !.voter[args.voter] =
     IF rm.voter[args.voter] = NoRow
     THEN [weight |-> args.weight, hasVoted |-> TRUE,
           registeredAtBlock |-> Null, lastUpdatedBlock |-> blockNumber]
     ELSE [rm.voter[args.voter] EXCEPT !.hasVoted = TRUE,
                                       !.lastUpdatedBlock = blockNumber]]

\* VoteCast: proposal.findUnique, then current = existing ? voteCount : 0
FindVoteCount(rm, args) ==
  IF rm.proposal[args.proposalId] = NoRow THEN 0
  ELSE rm.proposal[args.proposalId].voteCount

\* UpsertProposal that writes the weight of the event, not current + weight
UpsertProposalOverwrite(rm, args, current) ==
  [rm EXCEPT !.proposal[args.proposalId] =
     [name |-> << "proposal", args.proposalId >>, voteCount |-> args.weight]]

\* VoteCast: proposal.upsert writing String(next), next = current + weight,
\* where current is what findUnique returned one await earlier
UpsertProposal(rm, args, current) ==
  [rm EXCEPT !.proposal[args.proposalId] =
     IF rm.proposal[args.proposalId] = NoRow
     THEN [name |-> << "proposal", args.proposalId >>,
           voteCount |-> current + args.weight]
     ELSE [rm.proposal[args.proposalId] EXCEPT !.voteCount = current + args.weight]]

\* VoteCast: ballotSnapshot.update({totalVotes: {increment: 1}})
IncrementTotalVotes(rm) ==
  [rm EXCEPT !.snapshot.totalVotes = @ + 1]

\* UpdateWinner that sets the flag and leaves winningProposalId as it is
UpdateWinnerFlagOnly(rm, args) ==
  [rm EXCEPT !.snapshot.winnerComputed = TRUE]

\* Finalized: ballotSnapshot.update({winnerComputed: true, winningProposalId})
UpdateWinner(rm, args) ==
  [rm EXCEPT !.snapshot.winnerComputed = TRUE,
             !.snapshot.winningProposalId = args.winningProposalId]

\* Number of awaited Prisma calls applyReadModelProjection makes for an event.
ProjectionCalls(eventName) ==
  CASE eventName = "StageChanged"    -> 2
    [] eventName = "VoterRegistered" -> 3
    [] eventName = "VoteCast"        -> 6
    [] eventName = "Finalized"       -> 2
    [] OTHER                         -> 1

\* The read model after awaited call number `step` of applyReadModelProjection
\* for the log ev; `current` is the local read by findUnique.
ProjectionCallOf(rm, ev, step, current) ==
  LET kind == DecodeLog(ev)
  IN  CASE step = 1 -> UpsertSnapshot(rm, ev.blockNumber)
        [] step = 2 /\ kind = "StageChanged" -> UpdateStage(rm, ev.args)
        [] step = 2 /\ kind = "VoterRegistered" ->
             UpsertRegisteredVoter(rm, ev.args, ev.blockNumber)
        [] step = 3 /\ kind = "VoterRegistered" -> IncrementTotalVoters(rm)
        [] step = 2 /\ kind = "VoteCast" ->
             UpsertVote(rm, ev.args, ev.blockNumber, ev.txHash)
        [] step = 3 /\ kind = "VoteCast" -> MarkVoterVoted(rm, ev.args, ev.blockNumber)
        [] step = 4 /\ kind = "VoteCast" -> rm
        [] step = 5 /\ kind = "VoteCast" -> UpsertProposal(rm, ev.args, current)
        [] step = 6 /\ kind = "VoteCast" -> IncrementTotalVotes(rm)
        [] step = 2 /\ kind = "Finalized" -> UpdateWinner(rm, ev.args)
        [] OTHER -> rm

\* The local `current` after awaited call number `step`.
ProjectionLocalOf(rm, ev, step, current) ==
  IF step = 4 /\ DecodeLog(ev) = "VoteCast"
  THEN FindVoteCount(rm, ev.args)
  ELSE current

\* the same for log i of the chain
ProjectionCall(rm, i, step, current) == ProjectionCallOf(rm, ChainLog[i], step, current)
ProjectionLocal(rm, i, step, current) == ProjectionLocalOf(rm, ChainLog[i], step, current)

\* applyReadModelProjection run from awaited call number `step` to its return
\* with no other writer in between
RECURSIVE ApplyFrom(_, _, _, _)
ApplyFrom(rm, ev, step, current) ==
  IF step > ProjectionCalls(DecodeLog(ev)) THEN rm
  ELSE ApplyFrom(ProjectionCallOf(rm, ev, step, current), ev, step + 1,
                 ProjectionLocalOf(rm, ev, step, current))

ApplyReadModelProjection(rm, ev) == ApplyFrom(rm, ev, 1, 0)

\* ------------------------------------------------------------------------
\* Decisions of the sync loop
\* ------------------------------------------------------------------------
\* DefaultStartOf that starts the cursor at the deployment block itself
DefaultStartAtDeployment(deploymentBlock, latest) ==
  IF deploymentBlock > 0 THEN deploymentBlock ELSE Max(latest - 100, 0)

\* getOrCreateSyncState: the cursor a new ContractSyncState row starts from
DefaultStartOf(deploymentBlock, latest) ==
  IF deploymentBlock > 0 THEN Max(deploymentBlock - 1, 0) ELSE Max(latest - 100, 0)

\* defaultStart under the configured DEPLOYMENT_BLOCK
DefaultStart(latest) == DefaultStartOf(DEPLOYMENT_BLOCK, latest)

\* UpsertSyncState with update: {lastProcessedBlock: defaultStart}
UpsertSyncStateOverwrite(row, defaultStart) == [lastProcessedBlock |-> defaultStart]

\* contractSyncState.upsert({update: {}, create: {lastProcessedBlock: defaultStart}})
UpsertSyncState(row, defaultStart) ==
  IF row = NoRow THEN [lastProcessedBlock |-> defaultStart] ELSE row

\* safeLatest = Math.max(latest - CONFIRMATIONS, 0)
SafeLatestOf(latest, confirmations) == Max(latest - confirmations, 0)

\* safeLatest under the configured CONFIRMATIONS
SafeLatest(latest) == SafeLatestOf(latest, CONFIRMATIONS)

\* a pass that never takes the early return
IsCaughtUpNever(fromBlockInitial, safeLatest) == FALSE

\* if (fromBlockInitial > safeLatest) return
IsCaughtUp(fromBlockInitial, safeLatest) == fromBlockInitial > safeLatest

\* ToBlockOf without the cap at safeLatest
ToBlockUncapped(fromBlock, width, safeLatest) == fromBlock + width - 1

\* toBlock = Math.min(fromBlock + MAX_LOG_BLOCK_RANGE - 1, safeLatest)
ToBlockOf(fromBlock, width, safeLatest) == Min(fromBlock + width - 1, safeLatest)

\* toBlock under the configured MAX_LOG_BLOCK_RANGE
ToBlock(fromBlock, safeLatest) == ToBlockOf(fromBlock, MAX_LOG_BLOCK_RANGE, safeLatest)

\* RetryAllowed without the `attempt >= RPC_MAX_RETRIES` test
RetryAllowedNoCap(isRateLimit, attempt) == isRateLimit

\* RetryAllowed that tests `attempt > RPC_MAX_RETRIES`: one retry more
RetryAllowedOneMore(isRateLimit, attempt) == isRateLimit /\ attempt <= RPC_MAX_RETRIES

\* withRetry: a failed call is retried iff it was rate-limited and retries remain
RetryAllowed(isRateLimit, attempt) == isRateLimit /\ attempt < RPC_MAX_RETRIES

\* The row onChainEvent.create writes for log i.  `copy` stands for the
\* primary key: it tells the rows of one (chainId, txHash, logIndex) apart.
EventRow(i) ==
  [txHash |-> ChainLog[i].txHash, logIndex |-> ChainLog[i].logIndex,
   blockNumber |-> ChainLog[i].blockNumber, eventName |-> DecodeLog(ChainLog[i]),
   copy |-> 1]

\* onChainEvent.create succeeded: the table holds one more row
CreateRow(table, i) ==
  table \cup
    { [EventRow(i) EXCEPT !.copy =
         1 + Cardinality({ r \in table : /\ r.txHash = ChainLog[i].txHash
                                         /\ r.logIndex = ChainLog[i].logIndex })] }

\* IsDuplicate without the unique constraint: create never conflicts
IsDuplicateNever(table, i) == FALSE

\* The table holds a row with the unique key (chainId, txHash, logIndex) of log i.
HasRow(table, i) ==
  \E r \in table : r.txHash = ChainLog[i].txHash /\ r.logIndex = ChainLog[i].logIndex

\* onChainEvent.create fails with P2002 when a row has the same unique key
IsDuplicate(table, i) == HasRow(table, i)

\* ShouldProject without the `if (created)` test
ShouldProjectAlways(created) == TRUE

\* `if (created)`: the projection runs only for a newly inserted row
ShouldProject(created) == created

\* UpdateSyncState that leaves the row as it is
UpdateSyncStateKeep(row, toBlock) == row

\* contractSyncState.update({data: {lastProcessedBlock: toBlock}})
UpdateSyncState(row, toBlock) == [lastProcessedBlock |-> toBlock]

\* AfterCatchUp with the initial catchUpOnce awaited outside any try block:
\* its failure rejects onModuleInit before setInterval is reached
AfterCatchUpFatal(ph, failed) ==
  IF ph = "initial" THEN (IF failed THEN "dead" ELSE "polling") ELSE ph

\* onModuleInit after the awaited catchUpOnce returned or threw: the initial
\* failure is caught and setInterval is installed in both cases
AfterCatchUp(ph, failed) == IF ph = "initial" THEN "polling" ELSE ph

\* the setInterval callback: it calls catchUpOnce whatever is still running
TickStartsPass(inFlight) == TRUE

\* ------------------------------------------------------------------------
\* Locals of one catchUpOnce call
\* ------------------------------------------------------------------------
IdlePass ==
  [pc |-> "idle", attempt |-> 0, state |-> 0, safeLatest |-> 0, fromBlock |-> 0,
   toBlock |-> 0, idx |-> 0, step |-> 0, current |-> 0, pre |-> "na", retries |-> 0,
   iter |-> 0]

\* the call has been made and awaits provider.getBlockNumber in getOrCreateSyncState
StartedPass == [IdlePass EXCEPT !.pc = "syncTip"]

InFlight == {p \in Passes : pass[p].pc # "idle"}

TypeOK ==
  /\ tip \in 0..MaxTip
  /\ phase \in {"boot", "initial", "polling", "dead"}
  /\ faults \in 0..MaxFaults
  /\ ticked \in BOOLEAN
  /\ \A p \in Passes :
       pass[p].pc \in {"idle", "syncTip", "upsert", "tip", "fetch", "record",
                       "project", "advance", "throttle", "failed"}

\* The operations studied on their own are not running while the indexer is.
NoCall == [status |-> "none"]
NoSweep == [status |-> "none"]
NoApplied == [status |-> "none"]
NoBallot == [status |-> "none"]

\* the read-model tables of a fresh database
EmptyReadModel ==
  [snapshot |-> NoRow,
   voter    |-> [a \in VoterAddrs |-> NoRow],
   vote     |-> [a \in VoterAddrs |-> NoRow],
   proposal |-> [i \in ProposalIds |-> NoRow]]

IndexerInit ==
  /\ tip = DEPLOYMENT_BLOCK + CONFIRMATIONS + 1
  /\ syncState = NoRow
  /\ onChainEvent = {}
  /\ readModel = EmptyReadModel
  /\ pass = [p \in Passes |-> IdlePass]
  /\ phase = "boot"
  /\ faults = 0
  /\ projected = [i \in Events |-> [started |-> 0, done |-> 0]]
  /\ ticked = FALSE

Init ==
  /\ IndexerInit
  /\ call = NoCall
  /\ sweep = NoSweep
  /\ applied = NoApplied
  /\ ballot = NoBallot

\* The logs of the range pass p is working on, and the one it stands at.
LogsOf(p) == QueryFilter(pass[p].fromBlock, pass[p].toBlock)
CurrentLog(p) == LogsOf(p)[pass[p].idx]

\* History only: how much of a fetched range the ledger already holds.
Recorded(logs) ==
  IF Len(logs) = 0 THEN "none"
  ELSE IF \A k \in 1..Len(logs) : HasRow(onChainEvent, logs[k]) THEN "all"
  ELSE IF \E k \in 1..Len(logs) : HasRow(onChainEvent, logs[k]) THEN "some"
  ELSE "none"

Bump(n) == Min(n + 1, 2)

\* pass p returns from catchUpOnce
Returned(p) ==
  /\ pass' = [pass EXCEPT ![p] = IdlePass]
  /\ phase' = AfterCatchUp(phase, FALSE)

\* pass p throws out of catchUpOnce
Thrown(p) ==
  /\ pass' = [pass EXCEPT ![p] = [IdlePass EXCEPT !.pc = "failed"]]
  /\ ticked' = FALSE

\* the for loop moves to the next log of the range, or leaves the loop
NextLog(p) ==
  IF pass[p].idx + 1 > Len(LogsOf(p))
  THEN [pass[p] EXCEPT !.pc = "advance", !.idx = 0, !.step = 0, !.current = 0]
  ELSE [pass[p] EXCEPT !.pc = "record", !.idx = @ + 1, !.step = 0, !.current = 0]

\* ------------------------------------------------------------------------
\* Actions
\* ------------------------------------------------------------------------
\* onModuleInit up to the first catchUpOnce call: initProviderAndContract and
\* the currentStage sanity read either succeed, and the initial pass starts,
\* or throw, and the module never installs its timer.
OnModuleInit ==
  /\ phase = "boot"
  /\ \E ok \in BOOLEAN :
       IF ok
       THEN /\ phase' = "initial"
            /\ pass' = [pass EXCEPT ![1] = StartedPass]
       ELSE /\ phase' = "dead"
            /\ UNCHANGED pass
  /\ UNCHANGED << tip, syncState, onChainEvent, readModel, faults, projected, ticked >>
  /\ UNCHANGED unitVars

\* A setInterval tick: the callback calls catchUpOnce.
Tick ==
  /\ phase = "polling"
  /\ TickStartsPass(InFlight)
  /\ \E p \in Passes :
       /\ pass[p].pc = "idle"
       /\ \A q \in Passes : q < p => pass[q].pc # "idle"
       /\ pass' = [pass EXCEPT ![p] = StartedPass]
  /\ ticked' = TRUE
  /\ UNCHANGED << tip, syncState, onChainEvent, readModel, phase, faults, projected >>
  /\ UNCHANGED unitVars

\* withRetry's catch block around getBlockNumber or queryFilter: sleep and
\* retry a rate-limited call while retries remain, rethrow anything else.
RpcFailure(p) ==
  /\ pass[p].pc \in {"syncTip", "tip", "fetch"}
  /\ \E isRateLimit \in BOOLEAN :
       IF RetryAllowed(isRateLimit, pass[p].attempt)
       THEN /\ pass' = [pass EXCEPT ![p].attempt = @ + 1,
                                    ![p].retries = IF pass[p].pc = "fetch" THEN @ + 1 ELSE @]
            /\ UNCHANGED ticked
       ELSE Thrown(p)
  /\ UNCHANGED << tip, syncState, onChainEvent, readModel, phase, faults, projected >>
  /\ UNCHANGED unitVars

\* getOrCreateSyncState: getBlockNumber answered
GetSyncTip(p) ==
  /\ pass[p].pc = "syncTip"
  /\ pass' = [pass EXCEPT ![p].pc = "upsert", ![p].attempt = 0,
                          ![p].state = DefaultStart(tip)]
  /\ UNCHANGED << tip, syncState, onChainEvent, readModel, phase, faults, projected, ticked >>
  /\ UNCHANGED unitVars

\* getOrCreateSyncState: contractSyncState.upsert answered
GetOrCreateSyncState(p) ==
  /\ pass[p].pc = "upsert"
  /\ syncState' = UpsertSyncState(syncState, pass[p].state)
  /\ pass' = [pass EXCEPT ![p].pc = "tip", ![p].state = syncState'.lastProcessedBlock]
  /\ UNCHANGED << tip, onChainEvent, readModel, phase, faults, projected, ticked >>
  /\ UNCHANGED unitVars

\* catchUpOnce: getBlockNumber answered; return when caught up, else enter the
\* while loop and issue the first queryFilter
GetTip(p) ==
  /\ pass[p].pc = "tip"
  /\ LET safeLatest == SafeLatest(tip)
         fromBlock  == pass[p].state + 1
     IN  IF IsCaughtUp(fromBlock, safeLatest)
         THEN Returned(p)
         ELSE /\ pass' = [pass EXCEPT ![p].pc = "fetch", ![p].attempt = 0,
                                      ![p].safeLatest = safeLatest,
                                      ![p].fromBlock = fromBlock,
                                      ![p].toBlock = ToBlock(fromBlock, safeLatest),
                                      ![p].iter = 1]
              /\ UNCHANGED phase
  /\ UNCHANGED << tip, syncState, onChainEvent, readModel, faults, projected, ticked >>
  /\ UNCHANGED unitVars

\* queryFilter answered with the logs of [fromBlock, toBlock]
Fetch(p) ==
  /\ pass[p].pc = "fetch"
  /\ LET logs == LogsOf(p)
     IN  pass' = [pass EXCEPT ![p].pc = IF Len(logs) = 0 THEN "advance" ELSE "record",
                              ![p].idx = IF Len(logs) = 0 THEN 0 ELSE 1,
                              ![p].attempt = 0,
                              ![p].pre = Recorded(logs)]
  /\ UNCHANGED << tip, syncState, onChainEvent, readModel, phase, faults, projected, ticked >>
  /\ UNCHANGED unitVars

\* onChainEvent.create answered: the row is inserted, or P2002 is caught; then
\* applyReadModelProjection is called iff ShouldProject
Record(p) ==
  /\ pass[p].pc = "record"
  /\ LET i       == CurrentLog(p)
         created == ~IsDuplicate(onChainEvent, i)
     IN  /\ onChainEvent' = IF created THEN CreateRow(onChainEvent, i)
                            ELSE onChainEvent
         /\ IF ShouldProject(created)
            THEN /\ pass' = [pass EXCEPT ![p].pc = "project", ![p].step = 1]
                 /\ projected' = [projected EXCEPT ![i].started = Bump(@)]
            ELSE /\ pass' = [pass EXCEPT ![p] = NextLog(p)]
                 /\ UNCHANGED projected
  /\ UNCHANGED << tip, syncState, readModel, phase, faults, ticked >>
  /\ UNCHANGED unitVars

\* one awaited Prisma call of applyReadModelProjection answered
Project(p) ==
  /\ pass[p].pc = "project"
  /\ LET i    == CurrentLog(p)
         step == pass[p].step
     IN  /\ readModel' = ProjectionCall(readModel, i, step, pass[p].current)
         /\ IF step >= ProjectionCalls(DecodeLog(ChainLog[i]))
            THEN /\ pass' = [pass EXCEPT ![p] = NextLog(p)]
                 /\ projected' = [projected EXCEPT ![i].done = Bump(@)]
            ELSE /\ pass' = [pass EXCEPT
                               ![p].step = step + 1,
                               ![p].current =
                                  ProjectionLocal(readModel, i, step, pass[p].current)]
                 /\ UNCHANGED projected
  /\ UNCHANGED << tip, syncState, onChainEvent, phase, faults, ticked >>
  /\ UNCHANGED unitVars

\* contractSyncState.update answered: the cursor is written
Advance(p) ==
  /\ pass[p].pc = "advance"
  /\ syncState' = UpdateSyncState(syncState, pass[p].toBlock)
  /\ pass' = [pass EXCEPT ![p].pc = "throttle"]
  /\ UNCHANGED << tip, onChainEvent, readModel, phase, faults, projected, ticked >>
  /\ UNCHANGED unitVars

\* the throttle sleep ended: next range, or the while loop ends and the pass returns
Throttle(p) ==
  /\ pass[p].pc = "throttle"
  /\ LET fromBlock == pass[p].toBlock + 1
     IN  IF fromBlock <= pass[p].safeLatest
         THEN /\ pass' = [pass EXCEPT ![p].pc = "fetch", ![p].attempt = 0,
                                      ![p].fromBlock = fromBlock,
                                      ![p].toBlock = ToBlock(fromBlock, pass[p].safeLatest),
                                      ![p].pre = "na", ![p].retries = 0,
                                      ![p].iter = @ + 1]
              /\ UNCHANGED phase
         ELSE Returned(p)
  /\ UNCHANGED << tip, syncState, onChainEvent, readModel, faults, projected, ticked >>
  /\ UNCHANGED unitVars

\* a Prisma call rejects with an error that is not P2002: the pass throws
StoreError(p) ==
  /\ pass[p].pc \in {"upsert", "record", "project", "advance"}
  /\ faults < MaxFaults
  /\ faults' = faults + 1
  /\ Thrown(p)
  /\ UNCHANGED << tip, syncState, onChainEvent, readModel, phase, projected >>
  /\ UNCHANGED unitVars

\* the catch block around catchUpOnce (initial call or timer callback) logs
\* the error; after the initial call onModuleInit goes on to setInterval
CatchFailure(p) ==
  /\ pass[p].pc = "failed"
  /\ pass' = [pass EXCEPT ![p] = IdlePass]
  /\ phase' = AfterCatchUp(phase, TRUE)
  /\ UNCHANGED << tip, syncState, onChainEvent, readModel, faults, projected, ticked >>
  /\ UNCHANGED unitVars

\* the process dies and is started again: memory is lost, the database stays
Crash ==
  /\ phase \in {"initial", "polling"}
  /\ faults < MaxFaults
  /\ faults' = faults + 1
  /\ pass' = [p \in Passes |-> IdlePass]
  /\ phase' = "boot"
  /\ ticked' = FALSE
  /\ UNCHANGED << tip, syncState, onChainEvent, readModel, projected >>
  /\ UNCHANGED unitVars

\* the chain grows by one block
MineBlock ==
  /\ tip < MaxTip
  /\ tip' = tip + 1
  /\ UNCHANGED << syncState, onChainEvent, readModel, pass, phase, faults, projected, ticked >>
  /\ UNCHANGED unitVars

PassStep(p) ==
  \/ RpcFailure(p)
  \/ GetSyncTip(p)
  \/ GetOrCreateSyncState(p)
  \/ GetTip(p)
  \/ Fetch(p)
  \/ Record(p)
  \/ Project(p)
  \/ Advance(p)
  \/ Throttle(p)
  \/ StoreError(p)
  \/ CatchFailure(p)

Next ==
  \/ OnModuleInit
  \/ Tick
  \/ Crash
  \/ MineBlock
  \/ \E p \in Passes : PassStep(p)

Spec == Init /\ [][Next]_vars

\* The sync loop of a process that is not killed, with the scheduling Node.js
\* gives it: the interval timer keeps firing and a rejected catchUpOnce
\* reaches its catch block.
NextLive ==
  \/ OnModuleInit
  \/ Tick
  \/ MineBlock
  \/ \E p \in Passes : PassStep(p)

LiveSpec ==
  /\ Init
  /\ [][NextLive]_vars
  /\ WF_vars(Tick)
  /\ \A p \in Passes : WF_vars(CatchFailure(p))

\* ------------------------------------------------------------------------
\* withRetry on its own: one call of withRetry(fn, label) where the successive
\* calls of fn resolve or reject as a script chosen at the start says
\* ------------------------------------------------------------------------
\* fn resolved
Resolved == [kind |-> "ok", code |-> "", message |-> ""]

\* What fn can reject with.  `kind` is what happened at the node or on the
\* wire; `code` and `message` are what the error object carries (code 429 is
\* written "429").
RpcErrors ==
  { [kind |-> "rateLimit", code |-> "429", message |-> "Too Many Requests"],
    [kind |-> "rateLimit", code |-> "SERVER_ERROR",
     message |-> "exceeded its compute units per second capacity"],
    [kind |-> "timeout", code |-> "TIMEOUT", message |-> "request timeout"],
    [kind |-> "other", code |-> "CALL_EXCEPTION", message |-> "execution reverted"] }

Outcomes == {Resolved} \cup RpcErrors

\* the messages msg.includes("compute units per second") accepts
ComputeUnitMessages == {"exceeded its compute units per second capacity"}

\* IsRateLimitError that takes every error for a rate limit
IsRateLimitErrorAny(e) == TRUE

\* isRateLimitError: code === 429 || msg.includes("compute units per second")
IsRateLimitError(e) == e.code = "429" \/ e.message \in ComputeUnitMessages

\* the backoff without Math.min: the wait doubles for ever
WaitMsUncapped(base, cap, attempt) == base * (2 ^ attempt)

\* waitMs = Math.min(RPC_BACKOFF_BASE_MS * Math.pow(2, attempt), RPC_BACKOFF_CAP_MS)
WaitMsOf(base, cap, attempt) == Min(base * (2 ^ attempt), cap)

\* waitMs = Math.min(RPC_BACKOFF_BASE_MS * 2^attempt, RPC_BACKOFF_CAP_MS)
WaitMs(attempt) == WaitMsOf(RPC_BACKOFF_BASE_MS, RPC_BACKOFF_CAP_MS, attempt)

RetryInit ==
  /\ IndexerInit
  /\ ballot = NoBallot
  /\ sweep = NoSweep
  /\ applied = NoApplied
  /\ call \in { [status |-> "calling", outcomes |-> o, calls |-> 0, attempt |-> 0,
                 waitMs |-> 0, error |-> Resolved] : o \in [1..MaxCalls -> Outcomes] }

\* `return await fn()` and the catch block up to the throw or the sleep
WithRetryCall ==
  /\ call.status = "calling"
  /\ call.calls < Len(call.outcomes)
  /\ LET out == call.outcomes[call.calls + 1]
     IN  call' =
           IF out = Resolved
           THEN [call EXCEPT !.calls = @ + 1, !.status = "returned"]
           ELSE IF RetryAllowed(IsRateLimitError(out), call.attempt)
                THEN [call EXCEPT !.calls = @ + 1, !.status = "sleeping",
                                  !.waitMs = WaitMs(call.attempt)]
                ELSE [call EXCEPT !.calls = @ + 1, !.status = "thrown", !.error = out]
  /\ UNCHANGED << indexerVars, sweep, applied, ballot >>

\* the backoff sleep ended: attempt += 1 and the while loop calls fn again
WithRetrySleep ==
  /\ call.status = "sleeping"
  /\ call' = [call EXCEPT !.attempt = @ + 1, !.status = "calling"]
  /\ UNCHANGED << indexerVars, sweep, applied, ballot >>

RetryNext ==
  \/ WithRetryCall
  \/ WithRetrySleep

RetrySpec == RetryInit /\ [][RetryNext]_vars

\* ------------------------------------------------------------------------
\* The backoff of withRetry on its own: fn is rate-limited on every call.
\* The knobs are read from the environment, so the default values and some
\* neighbours are tried, with a cap below, between and above the waits.
\* ------------------------------------------------------------------------
BackoffConfigs ==
  [base : {500, RPC_BACKOFF_BASE_MS, 4000}, cap : {1000, RPC_BACKOFF_CAP_MS, 60000},
   maxRetries : {3, 8}]

BackoffInit ==
  /\ IndexerInit
  /\ ballot = NoBallot
  /\ sweep = NoSweep
  /\ applied = NoApplied
  /\ call \in { [status |-> "backoff", cfg |-> c, attempt |-> 0, waits |-> << >>] :
                 c \in BackoffConfigs }

\* fn rejected with a rate-limit error: the catch block throws when the
\* retries are used up, else it sleeps waitMs and adds 1 to attempt
BackoffRetry ==
  /\ call.status = "backoff"
  /\ call' =
       IF call.attempt >= call.cfg.maxRetries
       THEN [call EXCEPT !.status = "thrown"]
       ELSE [call EXCEPT
               !.waits = Append(@, WaitMsOf(call.cfg.base, call.cfg.cap, call.attempt)),
               !.attempt = @ + 1]
  /\ UNCHANGED << indexerVars, sweep, applied, ballot >>

BackoffNext == BackoffRetry

BackoffSpec == BackoffInit /\ [][BackoffNext]_vars

\* ------------------------------------------------------------------------
\* The range loop of catchUpOnce on its own: one pass that nothing overlaps
\* or interrupts, over a chain without logs, under a configuration, a tip and
\* a stored cursor chosen at the start
\* ------------------------------------------------------------------------
\* DEPLOYMENT_BLOCK, CONFIRMATIONS and MAX_LOG_BLOCK_RANGE of the process
SweepConfigs ==
  [deploymentBlock : {0, 100}, confirmations : {0, 2}, width : {4, 10}]

\* what provider.getBlockNumber answers
SweepTips == {101, 130, 141}

\* the ContractSyncState row the pass finds
SweepRows == {NoRow, [lastProcessedBlock |-> 120], [lastProcessedBlock |-> 130]}

SweepInit ==
  /\ IndexerInit
  /\ ballot = NoBallot
  /\ call = NoCall
  /\ applied = NoApplied
  /\ sweep \in { [status |-> "start", cfg |-> c, tip |-> t, found |-> r, row |-> r,
                  safeLatest |-> 0, fromBlock |-> 0, toBlock |-> 0, ranges |-> << >>] :
                  c \in SweepConfigs, t \in SweepTips, r \in SweepRows }

\* catchUpOnce up to the while loop: getOrCreateSyncState, safeLatest,
\* fromBlockInitial and the early return
SweepStart ==
  /\ sweep.status = "start"
  /\ LET state      == UpsertSyncState(sweep.row,
                                       DefaultStartOf(sweep.cfg.deploymentBlock, sweep.tip))
         safeLatest == SafeLatestOf(sweep.tip, sweep.cfg.confirmations)
         fromBlock  == state.lastProcessedBlock + 1
     IN  sweep' =
           IF IsCaughtUp(fromBlock, safeLatest)
           THEN [sweep EXCEPT !.status = "returned", !.row = state,
                              !.safeLatest = safeLatest]
           ELSE [sweep EXCEPT !.status = "loop", !.row = state,
                              !.safeLatest = safeLatest, !.fromBlock = fromBlock,
                              !.toBlock = ToBlockOf(fromBlock, sweep.cfg.width, safeLatest)]
  /\ UNCHANGED << indexerVars, call, applied, ballot >>

\* one iteration of the while loop: the range is fetched (no logs), the cursor
\* is set to toBlock and fromBlock moves past it
SweepRange ==
  /\ sweep.status = "loop"
  /\ LET fromBlock == sweep.toBlock + 1
     IN  sweep' =
           [sweep EXCEPT
              !.ranges = Append(@, << sweep.fromBlock, sweep.toBlock >>),
              !.row = UpdateSyncState(@, sweep.toBlock),
              !.fromBlock = fromBlock,
              !.toBlock = IF fromBlock <= sweep.safeLatest
                          THEN ToBlockOf(fromBlock, sweep.cfg.width, sweep.safeLatest)
                          ELSE @,
              !.status = IF fromBlock <= sweep.safeLatest THEN "loop" ELSE "returned"]
  /\ UNCHANGED << indexerVars, call, applied, ballot >>

SweepNext ==
  \/ SweepStart
  \/ SweepRange

SweepSpec == SweepInit /\ [][SweepNext]_vars

\* ------------------------------------------------------------------------
\* applyReadModelProjection on its own: new events are applied to a fresh
\* read model one after the other, in source order, each projection running
\* to its return before the next starts
\* ------------------------------------------------------------------------
\* name and args of the logs the source can deliver; the last one has the
\* VoteCast topic and data the ABI cannot decode
LogShapes ==
  { [decodable |-> TRUE, name |-> "StageChanged", args |-> [newStage |-> n]] :
      n \in {1, 2} }
  \cup { [decodable |-> TRUE, name |-> "VoterRegistered",
          args |-> [voter |-> a, weight |-> w]] : a \in VoterAddrs, w \in {1, 2} }
  \cup { [decodable |-> TRUE, name |-> "VoteCast",
          args |-> [voter |-> a, proposalId |-> i, weight |-> w]] :
          a \in VoterAddrs, i \in ProposalIds, w \in {1, 2} }
  \cup { [decodable |-> TRUE, name |-> "Finalized",
          args |-> [winningProposalId |-> i]] : i \in ProposalIds }
  \cup { [decodable |-> FALSE, name |-> "VoteCast",
          args |-> [voter |-> "v1", proposalId |-> 1, weight |-> 1]] }

\* the k-th log of the run: one log per transaction, every second block from 105
LogAt(k, shape) ==
  [blockNumber |-> 103 + 2 * k, txHash |-> << "tx", k >>, logIndex |-> 0,
   decodable |-> shape.decodable, name |-> shape.name, args |-> shape.args]

ProjectionInit ==
  /\ IndexerInit
  /\ ballot = NoBallot
  /\ call = NoCall
  /\ sweep = NoSweep
  /\ applied = [status |-> "run", before |-> EmptyReadModel, rm |-> EmptyReadModel,
                logs |-> << >>]

\* `if (created) await this.applyReadModelProjection(...)` for the next new log
ApplyEvent ==
  /\ applied.status = "run"
  /\ Len(applied.logs) < MaxApplied
  /\ \E shape \in LogShapes :
       LET ev == LogAt(Len(applied.logs) + 1, shape)
       IN  applied' = [applied EXCEPT !.before = applied.rm,
                                      !.rm = ApplyReadModelProjection(applied.rm, ev),
                                      !.logs = Append(@, ev)]
  /\ UNCHANGED << indexerVars, call, sweep, ballot >>

ProjectionNext == ApplyEvent

ProjectionSpec == ProjectionInit /\ [][ProjectionNext]_vars

\* ------------------------------------------------------------------------
\* The Ballot contract (contracts/contracts/Ballot.sol): one deployed
\* contract, the transactions the accounts send to it and the block
\* timestamps they are mined at.  A transaction is one step: it runs to its
\* end, or it reverts and leaves the storage and the logs as they were.
\* ------------------------------------------------------------------------
\* enum Stage { Init, Reg, Vote, Done }
StageInit == 0
StageReg == 1
StageVote == 2
StageDone == 3

\* latest block timestamp a transaction is mined at
MaxTime == 3
\* no transaction is sent once the contract has emitted this many logs
MaxLogs == 8

\* the accounts that send transactions: the deployer and two others
Accounts == VoterAddrs \cup {"v2"}
\* address(0)
ZeroAddress == "0x0"
\* chairperson = msg.sender of the deployment
chairperson == "chair"

\* constructor arguments _regStart, regDurationSec, voteDurationSec (the
\* contract is deployed at timestamp 0) and the immutables computed from them
regStart == 1
regDurationSec == 1
voteDurationSec == 1
regEnd == regStart + regDurationSec
voteEnd == regEnd + voteDurationSec

\* _proposals.length
NumProposals == Cardinality(ProposalIds)

\* emit StageChanged(stage, timestamp)
StageChangedEvent(newStage, nowTs) ==
  [decodable |-> TRUE, name |-> "StageChanged",
   args |-> [newStage |-> newStage, timestamp |-> nowTs]]

\* emit VoterRegistered(voter, weight)
VoterRegisteredEvent(voter, weight) ==
  [decodable |-> TRUE, name |-> "VoterRegistered",
   args |-> [voter |-> voter, weight |-> weight]]

\* emit VoteCast(msg.sender, proposalId, sender.weight)
VoteCastEvent(voter, proposalId, weight) ==
  [decodable |-> TRUE, name |-> "VoteCast",
   args |-> [voter |-> voter, proposalId |-> proposalId, weight |-> weight]]

\* emit Finalized(winningProposalId, winningVoteCount, timestamp)
FinalizedEvent(winner, winningVoteCount, nowTs) ==
  [decodable |-> TRUE, name |-> "Finalized",
   args |-> [winningProposalId |-> winner, winningVoteCount |-> winningVoteCount,
             timestamp |-> nowTs]]

\* the storage the constructor leaves
Constructor ==
  [stage |-> StageInit, manualMode |-> FALSE,
   voters |-> [a \in Accounts |->
                 IF a = chairperson
                 THEN [weight |-> 2, voted |-> FALSE, vote |-> 0]
                 ELSE [weight |-> 0, voted |-> FALSE, vote |-> 0]],
   voteCount |-> [i \in ProposalIds |-> 0],
   totalVoters |-> 1, totalVotes |-> 0,
   winningProposalId |-> 0, winnerComputed |-> FALSE]

\* what a call does: the storage after it, the events it emitted, the error
\* it reverted with ("" when it did not revert)
Reverted(c, error) == [c |-> c, emitted |-> << >>, error |-> error]
Succeeded(c, emitted) == [c |-> c, emitted |-> emitted, error |-> ""]

\* the stage the time windows give at timestamp nowTs
StageAt(nowTs) ==
  IF nowTs < regStart THEN StageInit
  ELSE IF nowTs < regEnd THEN StageReg
  ELSE IF nowTs < voteEnd THEN StageVote
  ELSE StageDone

\* currentStage(): the stored stage in manual mode, else the stage of the
\* time windows
currentStage(c, nowTs) == IF c.manualMode THEN c.stage ELSE StageAt(nowTs)

\* _syncStage: outside manual mode the stored stage becomes the stage of the
\* time windows, with a StageChanged event when it differs
syncStage(c, nowTs) ==
  IF c.manualMode \/ StageAt(nowTs) = c.stage
  THEN Succeeded(c, << >>)
  ELSE Succeeded([c EXCEPT !.stage = StageAt(nowTs)],
                 << StageChangedEvent(StageAt(nowTs), nowTs) >>)

\* IsRegistered that finds no address registered
IsRegisteredNever(c, voter) == FALSE

\* v.weight != 0
IsRegistered(c, voter) == c.voters[voter].weight # 0

\* register(voter) onlyChair atStage(Stage.Reg)
register(c, sender, voter, nowTs) ==
  LET synced == syncStage(c, nowTs)
  IN  IF sender # chairperson THEN Reverted(c, "OnlyChair")
      ELSE IF synced.c.stage # StageReg THEN Reverted(c, "BadStage")
      ELSE IF voter = ZeroAddress THEN Reverted(c, "Zero address")
      ELSE IF IsRegistered(synced.c, voter) THEN Reverted(c, "AlreadyRegistered")
      ELSE Succeeded([synced.c EXCEPT !.voters[voter].weight = 1,
                                      !.voters[voter].voted = FALSE,
                                      !.totalVoters = @ + 1],
                     Append(synced.emitted, VoterRegisteredEvent(voter, 1)))

\* HasVoted that finds no vote recorded
HasVotedNever(v) == FALSE

\* sender.voted
HasVoted(v) == v.voted

\* VoteWeight that counts every vote once
VoteWeightOne(v) == 1

\* sender.weight, what a vote adds to the proposal
VoteWeight(v) == v.weight

\* vote(proposalId) atStage(Stage.Vote)
vote(c, sender, proposalId, nowTs) ==
  LET synced == syncStage(c, nowTs)
      v      == synced.c.voters[sender]
  IN  IF synced.c.stage # StageVote THEN Reverted(c, "BadStage")
      ELSE IF proposalId >= NumProposals THEN Reverted(c, "InvalidProposal")
      ELSE IF v.weight = 0 THEN Reverted(c, "NotRegistered")
      ELSE IF HasVoted(v) THEN Reverted(c, "AlreadyVoted")
      ELSE Succeeded([synced.c EXCEPT !.voters[sender].voted = TRUE,
                                      !.voters[sender].vote = proposalId,
                                      !.voteCount[proposalId] = @ + VoteWeight(v),
                                      !.totalVotes = @ + 1],
                     Append(synced.emitted,
                            VoteCastEvent(sender, proposalId, v.weight)))

\* the loop of finalize from proposal i on: `if (c > winningVoteCount)`
RECURSIVE WinnerFrom(_, _, _, _)
WinnerFrom(voteCount, i, winningVoteCount, winner) ==
  IF i >= NumProposals THEN [id |-> winner, count |-> winningVoteCount]
  ELSE IF voteCount[i] > winningVoteCount
       THEN WinnerFrom(voteCount, i + 1, voteCount[i], i)
       ELSE WinnerFrom(voteCount, i + 1, winningVoteCount, winner)

\* finalize() onlyChair atStage(Stage.Done)
finalize(c, sender, nowTs) ==
  LET synced == syncStage(c, nowTs)
      win    == WinnerFrom(synced.c.voteCount, 0, 0, 0)
  IN  IF sender # chairperson THEN Reverted(c, "OnlyChair")
      ELSE IF synced.c.stage # StageDone THEN Reverted(c, "BadStage")
      ELSE IF synced.c.winnerComputed THEN Succeeded(synced.c, synced.emitted)
      ELSE IF win.count = 0 THEN Reverted(c, "NoVotesCast")
      ELSE Succeeded([synced.c EXCEPT !.winningProposalId = win.id,
                                      !.winnerComputed = TRUE],
                     Append(synced.emitted, FinalizedEvent(win.id, win.count, nowTs)))

\* enableManualMode() onlyChair
enableManualMode(c, sender) ==
  IF sender # chairperson THEN Reverted(c, "OnlyChair")
  ELSE Succeeded([c EXCEPT !.manualMode = TRUE], << >>)

\* disableManualMode() onlyChair: manualMode = false; _syncStage()
disableManualMode(c, sender, nowTs) ==
  IF sender # chairperson THEN Reverted(c, "OnlyChair")
  ELSE syncStage([c EXCEPT !.manualMode = FALSE], nowTs)

\* openRegistration, openVoting, closeBallot: onlyChair, manualMode = true,
\* BadStage unless the stored stage is `from`, then the stage becomes `to`
ManualStep(c, sender, from, to, nowTs) ==
  IF sender # chairperson THEN Reverted(c, "OnlyChair")
  ELSE IF c.stage # from THEN Reverted(c, "BadStage")
  ELSE Succeeded([c EXCEPT !.manualMode = TRUE, !.stage = to],
                 << StageChangedEvent(to, nowTs) >>)

openRegistration(c, sender, nowTs) == ManualStep(c, sender, StageInit, StageReg, nowTs)
openVoting(c, sender, nowTs) == ManualStep(c, sender, StageReg, StageVote, nowTs)
closeBallot(c, sender, nowTs) == ManualStep(c, sender, StageVote, StageDone, nowTs)

\* The logs of a transaction as the node delivers them.  Every transaction
\* that emits is mined in a block of its own, the deployment in block
\* DEPLOYMENT_BLOCK.
MinedLogs(logs, emitted) ==
  logs \o [k \in 1..Len(emitted) |->
             [blockNumber |-> DEPLOYMENT_BLOCK + Len(logs),
              txHash |-> << "tx", Len(logs) >>, logIndex |-> k - 1,
              decodable |-> emitted[k].decodable, name |-> emitted[k].name,
              args |-> emitted[k].args]]

BallotDeployed ==
  /\ IndexerInit
  /\ call = NoCall
  /\ sweep = NoSweep
  /\ ballot = [status |-> "deployed", now |-> 0, c |-> Constructor,
               logs |-> MinedLogs(<< >>, << StageChangedEvent(StageInit, 0) >>)]

BallotInit ==
  /\ BallotDeployed
  /\ applied = NoApplied

\* a transaction is mined at the current block timestamp
Mined(result) ==
  /\ ballot.status = "deployed"
  /\ Len(ballot.logs) < MaxLogs
  /\ ballot' = [ballot EXCEPT !.c = result.c,
                              !.logs = MinedLogs(@, result.emitted)]
  /\ UNCHANGED << indexerVars, call, sweep, applied >>

TxRegister ==
  \E sender \in Accounts, voter \in Accounts \cup {ZeroAddress} :
    Mined(register(ballot.c, sender, voter, ballot.now))

TxVote ==
  \E sender \in Accounts, proposalId \in 0..NumProposals :
    Mined(vote(ballot.c, sender, proposalId, ballot.now))

TxFinalize ==
  \E sender \in Accounts :
    Mined(finalize(ballot.c, sender, ballot.now))

TxEnableManualMode ==
  \E sender \in Accounts :
    Mined(enableManualMode(ballot.c, sender))

TxDisableManualMode ==
  \E sender \in Accounts :
    Mined(disableManualMode(ballot.c, sender, ballot.now))

TxOpenRegistration ==
  \E sender \in Accounts :
    Mined(openRegistration(ballot.c, sender, ballot.now))

TxOpenVoting ==
  \E sender \in Accounts :
    Mined(openVoting(ballot.c, sender, ballot.now))

TxCloseBallot ==
  \E sender \in Accounts :
    Mined(closeBallot(ballot.c, sender, ballot.now))

\* the next block has a later timestamp
TimePasses ==
  /\ ballot.status = "deployed"
  /\ ballot.now < MaxTime
  /\ ballot' = [ballot EXCEPT !.now = @ + 1]
  /\ UNCHANGED << indexerVars, call, sweep, applied >>

BallotNext ==
  \/ TxRegister
  \/ TxVote
  \/ TxFinalize
  \/ TxEnableManualMode
  \/ TxDisableManualMode
  \/ TxOpenRegistration
  \/ TxOpenVoting
  \/ TxCloseBallot
  \/ TimePasses

BallotSpec == BallotInit /\ [][BallotNext]_vars

\* ------------------------------------------------------------------------
\* The contract and the indexer behind it: the logs the contract emitted are
\* recorded and projected one after the other, in source order, by one pass
\* at a time that nothing interrupts
\* ------------------------------------------------------------------------
\* the read-model tables of a fresh database, for the accounts of the contract
BallotReadModel ==
  [EmptyReadModel EXCEPT !.voter = [a \in Accounts |-> NoRow],
                         !.vote = [a \in Accounts |-> NoRow]]

IndexedInit ==
  /\ BallotDeployed
  /\ applied = [status |-> "run", before |-> BallotReadModel,
                rm |-> BallotReadModel, logs |-> << >>]

\* the next log of the contract is new: it is recorded and projected
IndexLog ==
  /\ ballot.status = "deployed"
  /\ applied.status = "run"
  /\ Len(applied.logs) < Len(ballot.logs)
  /\ LET ev == ballot.logs[Len(applied.logs) + 1]
     IN  applied' = [applied EXCEPT !.before = applied.rm,
                                    !.rm = ApplyReadModelProjection(applied.rm, ev),
                                    !.logs = Append(@, ev)]
  /\ UNCHANGED << indexerVars, call, sweep, ballot >>

\* the indexer has processed every log before the next block is mined
IndexedNext ==
  \/ Len(applied.logs) = Len(ballot.logs) /\ BallotNext
  \/ IndexLog

IndexedSpec == IndexedInit /\ [][IndexedNext]_vars

\* getStats: participationRate = totalVoters > 0 ?
\* Number((totalVotes / totalVoters).toFixed(4)) : 0, in ten-thousandths
\* (toFixed(4) rounds the quotient to four decimals)
ParticipationRate(snapshot) ==
  LET totalVoters == IF snapshot = NoRow THEN 0 ELSE snapshot.totalVoters
      totalVotes  == IF snapshot = NoRow THEN 0 ELSE snapshot.totalVotes
  IN  IF totalVoters > 0
      THEN (2 * 10000 * totalVotes + totalVoters) \div (2 * totalVoters)
      ELSE 0

\* ------------------------------------------------------------------------
\* The voteCount of one Proposal row under VoteCast events whose weights are
\* wide integers (uint96 on chain).  A wide integer is hi * Limb + lo.  A
\* decimal string is written as the integer it spells; a JavaScript Number is
\* written as the integer the double holds.
\* ------------------------------------------------------------------------
Limb == 2 ^ 30

\* 2^53 = SafeHi * Limb: every integer below it is a double
SafeHi == 2 ^ 23

\* a + b of two wide integers
WideAdd(a, b) ==
  [hi |-> a.hi + b.hi + (a.lo + b.lo) \div Limb, lo |-> (a.lo + b.lo) % Limb]

\* the distance between neighbouring doubles at hi * Limb
RECURSIVE Ulp(_)
Ulp(hi) == IF hi < SafeHi THEN 1 ELSE 2 * Ulp(hi \div 2)

\* Number(x) of a decimal string or bigint x, and the rounding that ends a
\* Number operation: the nearest double, ties to the even significand
ToNumber(w) ==
  LET u  == Ulp(w.hi)
      q  == w.lo \div u
      r  == w.lo % u
      up == 2 * r > u \/ (2 * r = u /\ q % 2 = 1)
      lo == (IF up THEN q + 1 ELSE q) * u
  IN  [hi |-> w.hi + lo \div Limb, lo |-> lo % Limb]

\* a + b of two Numbers: the exact sum, rounded
NumberAdd(a, b) == ToNumber(WideAdd(a, b))

\* String(next): the decimal digits of the integer the Number holds (below
\* 10^21 String writes an integer-valued Number digit by digit, in full)
NumberToString(n) == n

\* the weights the VoteCast events carry: 1, 2, 2^53 - 1, 2^53, 2^53 + 1
WideWeights ==
  { [hi |-> 0, lo |-> 1], [hi |-> 0, lo |-> 2], [hi |-> SafeHi - 1, lo |-> Limb - 1],
    [hi |-> SafeHi, lo |-> 0], [hi |-> SafeHi, lo |-> 1] }

\* VoteCast, the Proposal row: weight = Number(weightRaw), current = existing ?
\* Number(existing.voteCount) : 0, voteCount: String(current + weight)
NextVoteCount(existing, weightRaw) ==
  LET weight  == ToNumber(weightRaw)
      current == IF existing = NoRow THEN [hi |-> 0, lo |-> 0] ELSE ToNumber(existing)
  IN  NumberToString(NumberAdd(current, weight))

TallyInit ==
  /\ IndexerInit
  /\ call = NoCall
  /\ sweep = NoSweep
  /\ ballot = NoBallot
  /\ applied = [status |-> "tally", voteCount |-> NoRow, weights |-> << >>]

\* the projection of one more VoteCast event for the proposal
ApplyWideVote ==
  /\ applied.status = "tally"
  /\ Len(applied.weights) < MaxApplied
  /\ \E weightRaw \in WideWeights :
       applied' = [applied EXCEPT !.voteCount = NextVoteCount(@, weightRaw),
                                  !.weights = Append(@, weightRaw)]
  /\ UNCHANGED << indexerVars, call, sweep, ballot >>

TallyNext == ApplyWideVote

TallySpec == TallyInit /\ [][TallyNext]_vars

\* ------------------------------------------------------------------------
\* Overlapping passes over one fetched range of two VoteCast logs: the timer
\* callback has no in-flight guard, so every pass started before the cursor
\* update gets the same two logs from queryFilter.  Each pass walks the
\* range as catchUpOnce does: create the ledger row, skip the log on P2002,
\* else run applyReadModelProjection call by call.
\* ------------------------------------------------------------------------
\* the two votes of the range: v1 (weight 1) in block 105, the chairperson
\* (weight 2) in block 107, each for one of the proposals
OverlapRanges ==
  { << LogAt(1, [decodable |-> TRUE, name |-> "VoteCast",
                 args |-> [voter |-> "v1", proposalId |-> i, weight |-> 1]]),
       LogAt(2, [decodable |-> TRUE, name |-> "VoteCast",
                 args |-> [voter |-> "chair", proposalId |-> j, weight |-> 2]]) >> :
      i \in ProposalIds, j \in ProposalIds }

IdleWalk == [pc |-> "idle", idx |-> 0, step |-> 0, current |-> 0]

OverlapInit ==
  /\ IndexerInit
  /\ call = NoCall
  /\ sweep = NoSweep
  /\ ballot = NoBallot
  /\ applied \in { [status |-> "overlap", logs |-> r, rows |-> {}, rm |-> EmptyReadModel,
                    walk |-> [p \in Passes |-> IdleWalk]] : r \in OverlapRanges }

\* the for loop of pass p moves to the next log, or the range is done
WalkOn(p) ==
  IF applied.walk[p].idx + 1 > Len(applied.logs)
  THEN [pc |-> "done", idx |-> 0, step |-> 0, current |-> 0]
  ELSE [pc |-> "record", idx |-> applied.walk[p].idx + 1, step |-> 0, current |-> 0]

\* a tick (or onModuleInit) called catchUpOnce and queryFilter answered
OverlapFetch(p) ==
  /\ applied.status = "overlap"
  /\ applied.walk[p].pc = "idle"
  /\ applied' = [applied EXCEPT !.walk[p] = WalkOn(p)]
  /\ UNCHANGED << indexerVars, call, sweep, ballot >>

\* onChainEvent.create answered: row inserted, or P2002 and the log is skipped
OverlapRecord(p) ==
  /\ applied.status = "overlap"
  /\ applied.walk[p].pc = "record"
  /\ LET ev      == applied.logs[applied.walk[p].idx]
         created == << ev.txHash, ev.logIndex >> \notin applied.rows
     IN  applied' =
           IF ShouldProject(created)
           THEN [applied EXCEPT !.rows = @ \cup {<< ev.txHash, ev.logIndex >>},
                                !.walk[p].pc = "project", !.walk[p].step = 1]
           ELSE [applied EXCEPT !.walk[p] = WalkOn(p)]
  /\ UNCHANGED << indexerVars, call, sweep, ballot >>

\* one awaited Prisma call of applyReadModelProjection answered
OverlapProject(p) ==
  /\ applied.status = "overlap"
  /\ applied.walk[p].pc = "project"
  /\ LET w  == applied.walk[p]
         ev == applied.logs[w.idx]
     IN  applied' =
           [applied EXCEPT
              !.rm = ProjectionCallOf(applied.rm, ev, w.step, w.current),
              !.walk[p] =
                 IF w.step >= ProjectionCalls(DecodeLog(ev))
                 THEN WalkOn(p)
                 ELSE [w EXCEPT !.step = w.step + 1,
                                !.current = ProjectionLocalOf(applied.rm, ev, w.step,
                                                              w.current)]]
  /\ UNCHANGED << indexerVars, call, sweep, ballot >>

OverlapNext ==
  \E p \in Passes :
    \/ OverlapFetch(p)
    \/ OverlapRecord(p)
    \/ OverlapProject(p)

OverlapSpec == OverlapInit /\ [][OverlapNext]_vars

\* ------------------------------------------------------------------------
\* Properties
\* ------------------------------------------------------------------------
Cursor == syncState.lastProcessedBlock

\* the cursor has advanced to or past the block of log i
Covered(i) == syncState # NoRow /\ ChainLog[i].blockNumber <= Cursor

\* the step is a step of pass p
Moved(p) == pass'[p] # pass[p]

\* C1: Idempotency of replay.  A pass that runs the record+project loop over a
\* range whose logs are all recorded already (the range was run before) changes
\* no BallotSnapshot, Voter, Vote or Proposal row in any of its steps, however
\* often the range is replayed.
ReplayIsIdempotent ==
  [][\A p \in Passes : (pass[p].pre = "all" /\ Moved(p)) => readModel' = readModel]_vars

\* C1 witness: a replay of a fully recorded range has run its whole loop.
ReplayCompleted ==
  \E p \in Passes : pass[p].pre = "all" /\ pass[p].pc = "advance"
                    /\ readModel.snapshot # NoRow

\* C2: Single idempotency gate.  In every state applyReadModelProjection has
\* been invoked exactly once for a log whose row onChainEvent.create inserted
\* and never for a log without a row: a duplicate-key conflict starts no
\* projection, so each raw-event key is projected at most once over any
\* sequence of passes.
ProjectedIffNewlyInserted ==
  \A i \in Events :
    projected[i].started = IF HasRow(onChainEvent, i) THEN 1 ELSE 0

\* C2 witness: a pass met a duplicate key for a log that was projected once and
\* moved on to the next log without projecting it.
DuplicateSkipped ==
  \E p \in Passes :
    /\ pass[p].pre = "some"
    /\ pass[p].pc = "record"
    /\ pass[p].idx = 2
    /\ projected[LogsOf(p)[1]].started = 1

\* C3: No lost or duplicated updates across crashes.  Once the cursor has
\* advanced past a block, every recorded raw event of that block has had its
\* projection applied exactly once.
RecordedEventsAppliedOnce ==
  \A i \in Events :
    (Covered(i) /\ HasRow(onChainEvent, i))
      => (projected[i].started = 1 /\ projected[i].done = 1)

\* C4: Crash-resume.  A pass over a range of which some logs are recorded
\* already does not project a recorded log again (it moves past it without a
\* write to the read model), and when its cursor update is done the stored
\* lastProcessedBlock is the range's toBlock.
ResumeSkipsRecordedAndAdvances ==
  [][\A p \in Passes :
       /\ (/\ pass[p].pre \in {"some", "all"}
           /\ pass[p].pc = "record"
           /\ HasRow(onChainEvent, CurrentLog(p))
           /\ Moved(p))
            => (pass'[p].pc # "project" /\ readModel' = readModel
                /\ projected' = projected)
       /\ (/\ pass[p].pre \in {"some", "all"}
           /\ pass[p].pc = "advance"
           /\ pass'[p].pc = "throttle")
            => (syncState' # NoRow /\ syncState'.lastProcessedBlock = pass[p].toBlock)]_vars

\* C4 witness: after a crash the initial pass of the restarted process went
\* through a partially recorded range and has advanced the cursor to its toBlock.
ResumedRangeCommitted ==
  \E p \in Passes :
    /\ phase = "initial"
    /\ pass[p].pre = "some"
    /\ pass[p].pc = "throttle"
    /\ syncState # NoRow
    /\ Cursor = pass[p].toBlock
    /\ \A i \in Events : projected[i].started <= 1

\* C5: Cursor monotonicity.  The stored lastProcessedBlock never decreases.
CursorNeverDecreases ==
  [][syncState # NoRow => (syncState' # NoRow /\ syncState'.lastProcessedBlock >= Cursor)]_vars

\* C6: A cursor update to a block below the stored lastProcessedBlock fails
\* with an error and leaves the stored cursor unchanged.
BackwardAdvanceFails ==
  [][\A p \in Passes :
       (/\ pass[p].pc = "advance"
        /\ pass[p].toBlock < Cursor
        /\ pass'[p].pc \notin {"advance", "idle"})
         => (pass'[p].pc = "failed" /\ syncState' = syncState)]_vars

\* C7: Mutual exclusion of passes.  At most one catchUpOnce call is in flight.
AtMostOnePassInFlight == Cardinality(InFlight) <= 1

\* C8: Commit barrier.  In no state does the cursor cover a block that has a
\* log whose recording or projection is incomplete.
CursorIsCommitBarrier ==
  \A i \in Events :
    Covered(i) => (HasRow(onChainEvent, i) /\ projected[i].done >= 1)

\* C9: Abort without advance.  When a pass aborts on a failed fetch or a store
\* error, the step leaves the cursor where it is, at the end of the last fully
\* processed range, so that the next pass starts at the aborted range's
\* fromBlock; a duplicate-key conflict does not abort the pass.
AbortLeavesRangeForRetry ==
  [][\A p \in Passes :
       /\ (/\ pass[p].pc \in {"fetch", "record", "project", "advance"}
           /\ pass'[p].pc = "failed")
            => (syncState' = syncState /\ Cursor + 1 = pass[p].fromBlock)
       /\ (/\ pass[p].pc = "record"
           /\ HasRow(onChainEvent, CurrentLog(p))
           /\ faults' = faults)
            => pass'[p].pc # "failed"]_vars

\* C10: A pass failure is never fatal to the loop.  While the process lives a
\* failed catchUpOnce leaves the timer installed or about to be installed, an
\* installed timer is never removed, and after every failure a later tick
\* starts a new pass, which reads the stored cursor first.
FailureLeadsToNewPass ==
  /\ [](\A p \in Passes : pass[p].pc = "failed" => phase \in {"initial", "polling"})
  /\ [][phase = "polling" => phase' = "polling"]_vars
  /\ \A p \in Passes : (pass[p].pc = "failed") ~> ticked
  /\ [][ticked' /\ ~ticked => \E p \in Passes : pass'[p] = StartedPass /\ pass[p].pc = "idle"]_vars

\* C10 witness: the initial catch-up failed, the timer was installed and a tick
\* has started a new pass.
TickAfterInitialFailure ==
  /\ ticked
  /\ phase = "polling"
  /\ syncState = NoRow
  /\ \E p \in Passes : pass[p].pc = "syncTip"

\* C11: Rate-limit resilience.  A pass never retries a fetch more than
\* RPC_MAX_RETRIES times; a retry keeps the range and writes nothing; a range
\* whose fetch was retried and then answered is committed with every one of
\* its logs recorded and projected exactly once; and when the fetch fails for
\* good (retries used up, or another error) the pass throws with the cursor and
\* the tables as they were.
RateLimitedFetchIsRetriedWithinCap ==
  /\ [](\A p \in Passes : pass[p].attempt <= RPC_MAX_RETRIES)
  /\ [][\A p \in Passes :
         /\ (pass[p].pc = "fetch" /\ pass'[p].pc = "fetch" /\ Moved(p))
              => (/\ pass[p].attempt < RPC_MAX_RETRIES
                  /\ pass'[p] = [pass[p] EXCEPT !.attempt = @ + 1, !.retries = @ + 1]
                  /\ UNCHANGED << syncState, onChainEvent, readModel, projected >>)
         /\ (pass[p].pc = "fetch" /\ pass'[p].pc = "failed")
              => UNCHANGED << syncState, onChainEvent, readModel, projected >>
         /\ (pass[p].retries > 0 /\ pass[p].pc = "advance" /\ pass'[p].pc = "throttle")
              => (/\ syncState'.lastProcessedBlock = pass[p].toBlock
                  /\ \A k \in 1..Len(LogsOf(p)) :
                       /\ HasRow(onChainEvent, LogsOf(p)[k])
                       /\ projected[LogsOf(p)[k]].started = 1)]_vars

\* C11 witness: a pass whose fetch was rate-limited once, fewer times than
\* the cap, and then answered has recorded and projected the logs of the
\* range once and moved the cursor to its end.
RetriedFetchCommitted ==
  \E p \in Passes :
    /\ pass[p].retries = 1
    /\ pass[p].retries < RPC_MAX_RETRIES
    /\ pass[p].pc = "throttle"
    /\ Len(LogsOf(p)) > 0
    /\ syncState # NoRow
    /\ Cursor = pass[p].toBlock
    /\ \A k \in 1..Len(LogsOf(p)) :
         projected[LogsOf(p)[k]] = [started |-> 1, done |-> 1]

\* C12: An error that is not a rate-limit signal is never retried.  The call
\* of fn that rejects with it is the last one withRetry makes, withRetry throws
\* that very error, and so fn is called exactly once when its first call fails
\* this way, whatever retries remain.
NonRateLimitErrorIsThrownAtOnce ==
  \A k \in 1..call.calls :
    call.outcomes[k].kind \notin {"ok", "rateLimit"}
      => (k = call.calls /\ call.status = "thrown" /\ call.error = call.outcomes[k])

\* C12 witness: the first call of fn failed with a contract revert; withRetry
\* threw it after that one call with its retries unused.
RevertThrownAfterOneCall ==
  /\ call.status = "thrown"
  /\ call.calls = 1
  /\ call.attempt = 0
  /\ call.attempt < RPC_MAX_RETRIES
  /\ call.error.kind = "other"

\* C13: A call that times out is retried like a rate-limited one: withRetry
\* throws a timeout only when its retries are used up.
TimeoutIsRetried ==
  (call.status = "thrown" /\ call.error.kind = "timeout")
    => call.attempt >= RPC_MAX_RETRIES

\* the scenario: deployment block 100, tip 130, confirmation margin 2, range
\* width 10, no cursor row
InScenario ==
  /\ sweep.cfg = [deploymentBlock |-> 100, confirmations |-> 2, width |-> 10]
  /\ sweep.tip = 130
  /\ sweep.found = NoRow

\* s is an initial segment of t
IsPrefix(s, t) == Len(s) <= Len(t) /\ \A k \in 1..Len(s) : s[k] = t[k]

\* C14 (amended): in the scenario the pass processes the ranges [100,109],
\* [110,119], [120,128] in this order and nothing else, and when it returns
\* the cursor is 128.  The new cursor row starts at deployment block - 1 = 99,
\* so the first range begins at block 100, the deployment block.
ScenarioRangesStartAtDeploymentBlock ==
  InScenario =>
    /\ IsPrefix(sweep.ranges, << << 100, 109 >>, << 110, 119 >>, << 120, 128 >> >>)
    /\ sweep.status = "returned"
         => (/\ sweep.ranges = << << 100, 109 >>, << 110, 119 >>, << 120, 128 >> >>
             /\ sweep.row = [lastProcessedBlock |-> 128])

\* C14 witness: the pass of the scenario has returned after three ranges.
ScenarioPassReturned ==
  InScenario /\ sweep.status = "returned" /\ Len(sweep.ranges) = 3

\* C14 as stated: in the scenario the pass processes the ranges [101,110],
\* [111,120], [121,128] in this order and nothing else, and the cursor ends
\* at 128.
ScenarioRangesAsStated ==
  InScenario =>
    /\ IsPrefix(sweep.ranges, << << 101, 110 >>, << 111, 120 >>, << 121, 128 >> >>)
    /\ sweep.status = "returned"
         => (/\ sweep.ranges = << << 101, 110 >>, << 111, 120 >>, << 121, 128 >> >>
             /\ sweep.row = [lastProcessedBlock |-> 128])

\* C15: getOrCreateSyncState never overwrites on read.  When its upsert
\* finds the cursor row it leaves the row as it is and returns its
\* lastProcessedBlock, whatever default the call computed from the tip; when
\* it finds no row it creates the row with that default; and a row once
\* created is never missing again, so of two first calls that race one
\* creates the row and the other returns what the first created.
GetOrCreateNeverOverwrites ==
  [][/\ syncState # NoRow => syncState' # NoRow
     /\ \A p \in Passes :
          (pass[p].pc = "upsert" /\ pass'[p].pc = "tip")
            => (/\ syncState' = IF syncState = NoRow
                                THEN [lastProcessedBlock |-> pass[p].state]
                                ELSE syncState
                /\ pass'[p].state = syncState'.lastProcessedBlock)]_vars

\* C15 witness: a call has returned a stored cursor that is ahead of the
\* default it had computed.
StoredCursorReturned ==
  \E p \in Passes :
    /\ pass[p].pc = "tip"
    /\ syncState # NoRow
    /\ pass[p].state = Cursor
    /\ Cursor > DefaultStart(tip)

\* the event applied last in the run of the projection, and its decoded name
LastLog == applied.logs[Len(applied.logs)]
LastApplied(eventName) ==
  Len(applied.logs) > 0 /\ DecodeLog(LastLog) = eventName

\* C16: Applying VoteCast(voter, proposalId, weight) makes the Vote row of
\* the voter the row of this event, sets the voter's hasVoted (creating the
\* Voter row with the event's weight and no registration block if it was
\* absent, and keeping weight and registration block of an existing row),
\* sets the proposal's voteCount to its previous value (0 without a row) plus
\* the weight, adds exactly 1 to totalVotes, and leaves totalVoters and the
\* rows of other voters and proposals as they were.
VoteCastProjection ==
  LastApplied("VoteCast") =>
    LET ev    == LastLog
        a     == ev.args.voter
        i     == ev.args.proposalId
        old   == applied.before
        new   == applied.rm
        votes == IF old.snapshot = NoRow THEN 0 ELSE old.snapshot.totalVotes
        regs  == IF old.snapshot = NoRow THEN 0 ELSE old.snapshot.totalVoters
        count == IF old.proposal[i] = NoRow THEN 0 ELSE old.proposal[i].voteCount
    IN  /\ new.vote[a] = [proposalId |-> i, weight |-> ev.args.weight,
                          txHash |-> ev.txHash, blockNumber |-> ev.blockNumber]
        /\ new.voter[a] =
             IF old.voter[a] = NoRow
             THEN [weight |-> ev.args.weight, hasVoted |-> TRUE,
                   registeredAtBlock |-> Null, lastUpdatedBlock |-> ev.blockNumber]
             ELSE [weight |-> old.voter[a].weight, hasVoted |-> TRUE,
                   registeredAtBlock |-> old.voter[a].registeredAtBlock,
                   lastUpdatedBlock |-> ev.blockNumber]
        /\ new.proposal[i] # NoRow
        /\ new.proposal[i].voteCount = count + ev.args.weight
        /\ new.snapshot.totalVotes = votes + 1
        /\ new.snapshot.totalVoters = regs
        /\ \A b \in VoterAddrs \ {a} :
             new.vote[b] = old.vote[b] /\ new.voter[b] = old.voter[b]
        /\ \A j \in ProposalIds \ {i} : new.proposal[j] = old.proposal[j]

\* C16 witness: a vote of weight 2 by a voter without a Voter row was applied
\* to a proposal that already counted 1: the count is 3, totalVotes is 2.
WeightedVoteCounted ==
  /\ LastApplied("VoteCast")
  /\ LastLog.args.weight = 2
  /\ applied.before.voter[LastLog.args.voter] = NoRow
  /\ applied.before.proposal[LastLog.args.proposalId] # NoRow
  /\ applied.rm.proposal[LastLog.args.proposalId].voteCount = 3
  /\ applied.rm.snapshot.totalVotes = 2

\* C17: Applying VoterRegistered(voter, weight) gives the Voter row of the
\* voter the event's weight and registeredAtBlock = the event's block, with
\* hasVoted false on a new row and unchanged on an existing one, and adds
\* exactly 1 to totalVoters for every registration event applied, also when
\* the voter had a row; StageChanged(1) at block 105 followed by
\* VoterRegistered(v1, 1) at block 107 gives stage 1, weight 1, totalVoters 1.
VoterRegisteredProjection ==
  /\ LastApplied("VoterRegistered") =>
       LET ev   == LastLog
           a    == ev.args.voter
           old  == applied.before
           new  == applied.rm
           regs == IF old.snapshot = NoRow THEN 0 ELSE old.snapshot.totalVoters
       IN  /\ new.voter[a] # NoRow
           /\ new.voter[a].weight = ev.args.weight
           /\ new.voter[a].registeredAtBlock = ev.blockNumber
           /\ new.voter[a].hasVoted =
                (IF old.voter[a] = NoRow THEN FALSE ELSE old.voter[a].hasVoted)
           /\ new.snapshot.totalVoters = regs + 1
           /\ new.vote = old.vote
           /\ new.proposal = old.proposal
           /\ \A b \in VoterAddrs \ {a} : new.voter[b] = old.voter[b]
  /\ (/\ Len(applied.logs) = 2
      /\ applied.logs[1].blockNumber = 105
      /\ DecodeLog(applied.logs[1]) = "StageChanged"
      /\ applied.logs[1].args.newStage = 1
      /\ applied.logs[2].blockNumber = 107
      /\ DecodeLog(applied.logs[2]) = "VoterRegistered"
      /\ applied.logs[2].args = [voter |-> "v1", weight |-> 1])
       => (/\ applied.rm.snapshot.stage = 1
           /\ applied.rm.voter["v1"].weight = 1
           /\ applied.rm.snapshot.totalVoters = 1)

\* C17 witness: a voter who has voted was registered again with another
\* weight: hasVoted is kept and the registration is counted a second time.
VotedVoterRegisteredAgain ==
  /\ LastApplied("VoterRegistered")
  /\ applied.before.voter[LastLog.args.voter] # NoRow
  /\ applied.before.voter[LastLog.args.voter].hasVoted
  /\ applied.before.voter[LastLog.args.voter].weight # LastLog.args.weight
  /\ applied.rm.voter[LastLog.args.voter].hasVoted
  /\ applied.rm.snapshot.totalVoters = 2

\* the VoteCast events of voter a among the applied ones, by position
VotesOf(a) ==
  {k \in 1..Len(applied.logs) :
     DecodeLog(applied.logs[k]) = "VoteCast" /\ applied.logs[k].args.voter = a}

\* C20: One Vote row per voter, holding the last vote applied.  After any
\* sequence of events applied in source order, a voter without a VoteCast
\* event has no Vote row and every other voter has the one row that carries
\* proposalId, weight, txHash and blockNumber of the last VoteCast event of
\* that voter.
VoteRowIsLastVoteApplied ==
  \A a \in VoterAddrs :
    IF VotesOf(a) = {}
    THEN applied.rm.vote[a] = NoRow
    ELSE LET last == CHOOSE k \in VotesOf(a) : \A j \in VotesOf(a) : j <= k
             ev   == applied.logs[last]
         IN  applied.rm.vote[a] =
               [proposalId |-> ev.args.proposalId, weight |-> ev.args.weight,
                txHash |-> ev.txHash, blockNumber |-> ev.blockNumber]

\* C20 witness: a voter appears in two VoteCast events for different
\* proposals, and the Vote row is the one of the later event.
LaterVoteOverwrites ==
  \E a \in VoterAddrs :
    /\ Cardinality(VotesOf(a)) = 2
    /\ \E j, k \in VotesOf(a) :
         /\ j < k
         /\ applied.logs[j].args.proposalId # applied.logs[k].args.proposalId
         /\ applied.rm.vote[a].proposalId = applied.logs[k].args.proposalId
         /\ applied.rm.vote[a].blockNumber = applied.logs[k].blockNumber

\* the read-model rows and counters, without Snapshot.lastIndexedBlock
Counted(rm) ==
  [voter |-> rm.voter, vote |-> rm.vote, proposal |-> rm.proposal,
   snapshot |-> IF rm.snapshot = NoRow
                THEN [stage |-> 0, totalVoters |-> 0, totalVotes |-> 0,
                      winnerComputed |-> FALSE, winningProposalId |-> 0]
                ELSE [stage |-> rm.snapshot.stage,
                      totalVoters |-> rm.snapshot.totalVoters,
                      totalVotes |-> rm.snapshot.totalVotes,
                      winnerComputed |-> rm.snapshot.winnerComputed,
                      winningProposalId |-> rm.snapshot.winningProposalId]]

\* C18: Decode failures are not fatal.  The row recorded for a log the ABI
\* cannot decode has the event name "UnknownEvent"; the pass records such a
\* log like any other (a row is in the ledger after the create), its
\* projection changes no counter and no Voter, Vote or Proposal row, the pass
\* goes on to the next log or to the end of the range without throwing, and
\* the cursor update of the range sets the cursor to toBlock.
DecodeFailureIsNotFatal ==
  /\ [](\A i \in Events : \A r \in onChainEvent :
          (/\ ~ChainLog[i].decodable
           /\ r.txHash = ChainLog[i].txHash
           /\ r.logIndex = ChainLog[i].logIndex) => r.eventName = "UnknownEvent")
  /\ [][\A p \in Passes :
         /\ (/\ pass[p].pc = "record"
             /\ ~ChainLog[CurrentLog(p)].decodable
             /\ Moved(p)
             /\ faults' = faults)
              => (/\ HasRow(onChainEvent', CurrentLog(p))
                  /\ pass'[p].pc \in {"project", "record", "advance"}
                  /\ readModel' = readModel)
         /\ (/\ pass[p].pc = "project"
             /\ ~ChainLog[CurrentLog(p)].decodable
             /\ Moved(p)
             /\ faults' = faults)
              => (/\ pass'[p].pc \in {"record", "advance"}
                  /\ Counted(readModel') = Counted(readModel))
         /\ (/\ pass[p].pc = "advance"
             /\ pass'[p].pc = "throttle"
             /\ \E k \in 1..Len(LogsOf(p)) : ~ChainLog[LogsOf(p)[k]].decodable)
              => syncState'.lastProcessedBlock = pass[p].toBlock]_vars

\* C18 witness: a pass has recorded the undecodable log of block 2 as
\* UnknownEvent, run its projection, and moved the cursor to the end of the
\* range; no vote was counted for it.
UnknownEventRangeCommitted ==
  \E p \in Passes : \E k \in 1..Len(LogsOf(p)) :
    /\ pass[p].pc = "throttle"
    /\ ~ChainLog[LogsOf(p)[k]].decodable
    /\ EventRow(LogsOf(p)[k]) \in onChainEvent
    /\ EventRow(LogsOf(p)[k]).eventName = "UnknownEvent"
    /\ projected[LogsOf(p)[k]] = [started |-> 1, done |-> 1]
    /\ syncState # NoRow
    /\ Cursor = pass[p].toBlock
    /\ readModel.vote["v1"] = NoRow

\* C19: Readers never observe partially-applied events.  In every state of
\* the database the blocks of all OnChainEvent rows and the snapshot's
\* lastIndexedBlock are at or below the stored cursor.
ReadersSeeOnlyCommittedRanges ==
  /\ \A r \in onChainEvent : syncState # NoRow /\ r.blockNumber <= Cursor
  /\ readModel.snapshot # NoRow
       => (syncState # NoRow /\ readModel.snapshot.lastIndexedBlock <= Cursor)


\* the indexer has recorded and projected every log the contract emitted
CaughtUp ==
  /\ applied.status = "run"
  /\ ballot.status = "deployed"
  /\ Len(applied.logs) = Len(ballot.logs)

\* C21: Registration convergence.  Whenever the indexer has processed every
\* event from the deployment block on, BallotSnapshot.totalVoters equals the
\* contract's totalVoters, and the Voter rows that carry a registration block
\* are exactly the addresses whose on-chain weight is above zero, with the
\* same weights.
RegistrationConverges ==
  CaughtUp =>
    /\ applied.rm.snapshot.totalVoters = ballot.c.totalVoters
    /\ \A a \in Accounts :
         /\ (/\ applied.rm.voter[a] # NoRow
             /\ applied.rm.voter[a].registeredAtBlock # Null)
              <=> ballot.c.voters[a].weight > 0
         /\ ballot.c.voters[a].weight > 0 =>
              /\ applied.rm.voter[a] # NoRow
              /\ applied.rm.voter[a].weight = ballot.c.voters[a].weight

\* the proposals at least one recorded vote is for
VotedProposals ==
  { ballot.c.voters[a].vote : a \in { b \in Accounts : ballot.c.voters[b].voted } }

\* C22: State convergence.  With one pass at a time and no crash, whenever the
\* indexer has processed every event from the deployment block on, the
\* snapshot's stage, totalVotes, winnerComputed and winningProposalId equal the
\* contract's, and every proposal with at least one vote has a Proposal row
\* whose voteCount is the contract's voteCount.
StateConverges ==
  CaughtUp =>
    /\ applied.rm.snapshot.stage = ballot.c.stage
    /\ applied.rm.snapshot.totalVotes = ballot.c.totalVotes
    /\ applied.rm.snapshot.winnerComputed = ballot.c.winnerComputed
    /\ applied.rm.snapshot.winningProposalId = ballot.c.winningProposalId
    /\ \A i \in VotedProposals :
         /\ applied.rm.proposal[i] # NoRow
         /\ applied.rm.proposal[i].voteCount = ballot.c.voteCount[i]

\* C22 witness: the indexer has caught up with a finalized ballot in which
\* the chairperson and another voter chose proposal 1.
FinalizedBallotIndexed ==
  /\ CaughtUp
  /\ ballot.c.winnerComputed
  /\ ballot.c.winningProposalId = 1
  /\ ballot.c.voteCount[1] = 3
  /\ applied.rm.snapshot.winnerComputed
  /\ applied.rm.snapshot.stage = StageDone

\* C23: The ledger is append-only and deduplicated.  No two OnChainEvent rows
\* share the key (chainId, txHash, logIndex); no step removes or changes a
\* row; and when onChainEvent.create answers for a key that has a row, the
\* table stays as it is and the pass goes on without an error.
LedgerIsAppendOnlyAndDeduplicated ==
  [][/\ onChainEvent \subseteq onChainEvent'
     /\ \A r1, r2 \in onChainEvent' :
          (r1.txHash = r2.txHash /\ r1.logIndex = r2.logIndex) => r1 = r2
     /\ \A p \in Passes :
          (/\ pass[p].pc = "record"
           /\ HasRow(onChainEvent, CurrentLog(p))
           /\ pass'[p] # pass[p]
           /\ faults' = faults)
            => (/\ onChainEvent' = onChainEvent
                /\ pass'[p].pc \in {"record", "advance"})]_vars

\* C23 witness: every log of the range had a row when it was fetched, and the
\* pass has gone through all of them to the cursor update.
DuplicateRangePassed ==
  \E p \in Passes :
    /\ pass[p].pre = "all"
    /\ pass[p].pc = "advance"
    /\ \A k \in 1..Len(LogsOf(p)) : EventRow(LogsOf(p)[k]) \in onChainEvent
    /\ Len(LogsOf(p)) > 0

\* the integer sum of wide integers
RECURSIVE WideSum(_)
WideSum(ws) ==
  IF Len(ws) = 0 THEN [hi |-> 0, lo |-> 0]
  ELSE WideAdd(ws[1], WideSum(Tail(ws)))

\* C24: Wide integers keep full precision.  For any VoteCast weights applied
\* to a proposal, sums above 2^53 included, Proposal.voteCount is the decimal
\* string of the integer sum of the weights.
VoteCountIsExactSum ==
  (applied.status = "tally" /\ Len(applied.weights) > 0)
    => applied.voteCount = WideSum(applied.weights)

\* the events named `name` among the events of a call or the logs of the chain
Named(events, name) == { k \in 1..Len(events) : events[k].name = name }

VoteSucceedsOnlyAsStated ==
  ballot.status = "deployed" =>
    /\ \A sender \in Accounts, proposalId \in 0..NumProposals :
         LET c       == ballot.c
             r       == vote(c, sender, proposalId, ballot.now)
             allowed == /\ currentStage(c, ballot.now) = StageVote
                        /\ c.voters[sender].weight > 0
                        /\ ~c.voters[sender].voted
                        /\ proposalId < NumProposals
         IN  IF allowed
             THEN /\ r.error = ""
                  /\ r.c = [c EXCEPT !.stage = StageVote,
                                     !.voters[sender].voted = TRUE,
                                     !.voters[sender].vote = proposalId,
                                     !.voteCount[proposalId] =
                                        c.voteCount[proposalId] + c.voters[sender].weight,
                                     !.totalVotes = c.totalVotes + 1]
                  /\ Named(r.emitted, "VoteCast") = {Len(r.emitted)}
                  /\ r.emitted[Len(r.emitted)] =
                       VoteCastEvent(sender, proposalId, c.voters[sender].weight)
             ELSE /\ r.error \in {"BadStage", "InvalidProposal", "NotRegistered",
                                   "AlreadyVoted"}
                  /\ r.error = "BadStage" => currentStage(c, ballot.now) # StageVote
                  /\ r.error = "InvalidProposal" => proposalId >= NumProposals
                  /\ r.error = "NotRegistered" => c.voters[sender].weight = 0
                  /\ r.error = "AlreadyVoted" => c.voters[sender].voted
                  /\ r.c = c
                  /\ r.emitted = << >>
    /\ \A a \in Accounts :
         Cardinality({ k \in Named(ballot.logs, "VoteCast") :
                         ballot.logs[k].args.voter = a }) <= 1

\* C26 witness: in stage Vote v1 has voted for proposal 1 (the VoteCast log
\* is on the chain) and the chairperson has not voted yet.
VoterHasVotedInVote ==
  /\ ballot.status = "deployed"
  /\ currentStage(ballot.c, ballot.now) = StageVote
  /\ ballot.c.voters["v1"].voted
  /\ ballot.c.voters["v1"].vote = 1
  /\ ~ballot.c.voters[chairperson].voted
  /\ ballot.c.totalVotes = 1
  /\ \E k \in Named(ballot.logs, "VoteCast") :
       ballot.logs[k].args = [voter |-> "v1", proposalId |-> 1, weight |-> 1]

\* the sum of the weights of the voters among `as` whose recorded vote is i
RECURSIVE WeightFor(_, _)
WeightFor(i, as) ==
  IF as = {} THEN 0
  ELSE LET a == CHOOSE b \in as : TRUE
           v == ballot.c.voters[a]
       IN  (IF v.voted /\ v.vote = i THEN v.weight ELSE 0) + WeightFor(i, as \ {a})

\* C27: Weighted counting.  In every reachable state the chairperson has
\* weight 2 and every other registered voter weight 1; each proposal's
\* voteCount is the sum of the weights of the voters whose recorded vote is
\* that proposal; totalVotes is the number of voters with voted = true;
\* totalVoters is the number of addresses with weight above zero.
WeightedCounting ==
  ballot.status = "deployed" =>
    /\ ballot.c.voters[chairperson].weight = 2
    /\ \A a \in Accounts \ {chairperson} : ballot.c.voters[a].weight \in {0, 1}
    /\ \A i \in ProposalIds : ballot.c.voteCount[i] = WeightFor(i, Accounts)
    /\ ballot.c.totalVotes = Cardinality({ a \in Accounts : ballot.c.voters[a].voted })
    /\ ballot.c.totalVoters =
         Cardinality({ a \in Accounts : ballot.c.voters[a].weight > 0 })

\* C27 witness: the chairperson and v1 voted for proposal 0 and v2 for
\* proposal 1: counts 3 and 1, three votes, three voters.
ChairAndVotersCounted ==
  /\ ballot.status = "deployed"
  /\ ballot.c.voteCount = [i \in ProposalIds |-> IF i = 0 THEN 3 ELSE 1]
  /\ ballot.c.voters[chairperson].voted
  /\ ballot.c.voters[chairperson].vote = 0
  /\ ballot.c.totalVotes = 3
  /\ ballot.c.totalVoters = 3

\* the lowest-index proposal among those with the maximum voteCount
LowestIndexMax(voteCount) ==
  CHOOSE i \in ProposalIds :
    /\ \A j \in ProposalIds : voteCount[j] <= voteCount[i]
    /\ \A j \in ProposalIds : voteCount[j] = voteCount[i] => i <= j

\* what C28 says of finalize() sent by `sender` in the state at hand
FinalizeAsStated(sender) ==
  LET c == ballot.c
      r == finalize(c, sender, ballot.now)
  IN  currentStage(c, ballot.now) = StageDone =>
        IF c.winnerComputed
        THEN r.c = c /\ r.emitted = << >>
        ELSE IF c.totalVotes > 0
        THEN /\ r.error = ""
             /\ r.c.winnerComputed
             /\ r.c.winningProposalId = LowestIndexMax(c.voteCount)
             /\ Named(r.emitted, "Finalized") = {Len(r.emitted)}
             /\ r.emitted[Len(r.emitted)] =
                  FinalizedEvent(LowestIndexMax(c.voteCount),
                                 c.voteCount[LowestIndexMax(c.voteCount)], ballot.now)
        ELSE r.error = "NoVotesCast" /\ ~r.c.winnerComputed

\* C28: finalize() in stage Done with at least one vote cast sets
\* winnerComputed and sets winningProposalId to the lowest-index proposal with
\* the maximum voteCount, and emits Finalized once; a later finalize() changes
\* nothing and emits nothing; with no votes cast it reverts with NoVotesCast
\* and winnerComputed stays false.
FinalizeComputesWinnerOnce ==
  ballot.status = "deployed" =>
    /\ \A sender \in Accounts : FinalizeAsStated(sender)
    /\ Cardinality(Named(ballot.logs, "Finalized")) <= 1

\* C29: Anyone can finalize.  Once the stage is Done and a vote has been
\* cast, finalize() sent from any account, the chairperson or not, succeeds
\* and the winner is computed.
AnyoneCanFinalize ==
  (ballot.status = "deployed" /\ currentStage(ballot.c, ballot.now) = StageDone
     /\ ballot.c.totalVotes > 0)
    => \A sender \in Accounts :
         LET r == finalize(ballot.c, sender, ballot.now)
         IN  r.error = "" /\ r.c.winnerComputed

\* C30: The lifecycle is forward-only.  Whatever transactions are sent at
\* whatever block timestamps, enableManualMode, openRegistration, openVoting,
\* closeBallot and disableManualMode included, no StageChanged event names
\* an earlier stage than a StageChanged event before it, and the stored stage
\* is never earlier than the stage of an event already emitted.
StageOnlyMovesForward ==
  ballot.status = "deployed" =>
    /\ \A j, k \in Named(ballot.logs, "StageChanged") :
         j < k => ballot.logs[j].args.newStage <= ballot.logs[k].args.newStage
    /\ \A k \in Named(ballot.logs, "StageChanged") :
         ballot.logs[k].args.newStage <= ballot.c.stage

\* the cursor the pass of the range loop starts from, and its safe tip
SweepCursor ==
  IF sweep.found = NoRow
  THEN IF sweep.cfg.deploymentBlock > 0
       THEN Max(sweep.cfg.deploymentBlock - 1, 0)
       ELSE Max(sweep.tip - 100, 0)
  ELSE sweep.found.lastProcessedBlock
SweepSafeTip == Max(sweep.tip - sweep.cfg.confirmations, 0)

\* every fetched range is [from, min(from + W - 1, safeTip)], the first one
\* starts at cursor + 1 and each next one right after the one before
SweepRangesAsComputed ==
  /\ \A k \in 1..Len(sweep.ranges) :
       /\ sweep.ranges[k][2] = Min(sweep.ranges[k][1] + sweep.cfg.width - 1, SweepSafeTip)
       /\ sweep.ranges[k][1] <= sweep.ranges[k][2]
       /\ sweep.ranges[k][2] - sweep.ranges[k][1] + 1 <= sweep.cfg.width
       /\ sweep.ranges[k][2] <= SweepSafeTip
       /\ sweep.ranges[k][1] = IF k = 1 THEN SweepCursor + 1
                                ELSE sweep.ranges[k - 1][2] + 1
  /\ sweep.status = "loop" =>
       sweep.fromBlock = IF Len(sweep.ranges) = 0 THEN SweepCursor + 1
                         ELSE sweep.ranges[Len(sweep.ranges)][2] + 1

\* C31: Range computation.  With W = MAX_LOG_BLOCK_RANGE >= 1 and safeTip =
\* max(tip - CONFIRMATIONS, 0) read once at the start of the pass, every
\* fetched range [from, to] has to = min(from + W - 1, safeTip), so its width
\* is at most W and to <= safeTip; the ranges of a pass are contiguous and
\* start at cursor + 1; a pass that completes after fetching a range leaves
\* lastProcessedBlock = safeTip, and a pass that starts with the cursor at or
\* above safeTip leaves the cursor where it was.
RangesCappedContiguousUpToSafeTip ==
  sweep.status \in {"loop", "returned"} =>
    /\ SweepRangesAsComputed
    /\ sweep.status = "returned" =>
         sweep.row.lastProcessedBlock = Max(SweepCursor, SweepSafeTip)
    /\ (sweep.status = "returned" /\ Len(sweep.ranges) = 0) =>
         sweep.row.lastProcessedBlock = SweepCursor

\* C31 witness: from cursor 120 with tip 141, no confirmations and width 10
\* the pass fetched [121,130], [131,140], [141,141] and returned at 141.
ThreeRangesLastOneShort ==
  /\ sweep.status = "returned"
  /\ sweep.cfg.width = 10
  /\ sweep.ranges = << << 121, 130 >>, << 131, 140 >>, << 141, 141 >> >>
  /\ sweep.row.lastProcessedBlock = 141
  /\ SweepSafeTip = 141

\* C31 as stated: the same ranges, and every pass that completes leaves
\* lastProcessedBlock = safeTip.
EveryCompletedPassEndsAtSafeTip ==
  sweep.status \in {"loop", "returned"} =>
    /\ SweepRangesAsComputed
    /\ sweep.status = "returned" => sweep.row.lastProcessedBlock = SweepSafeTip

\* C32: A caught-up pass is a no-op.  While a pass gets its cursor row the
\* ledger and the read model stay as they are and the cursor row changes only
\* by being created when it was absent; and when the pass then finds
\* cursor + 1 > safeTip it issues no log fetch and writes nothing: the
\* cursor, the ledger and the read-model tables are unchanged.
CaughtUpPassIsNoOp ==
  [][\A p \in Passes :
       pass'[p] # pass[p] =>
         /\ pass[p].pc = "syncTip" =>
              UNCHANGED << syncState, onChainEvent, readModel >>
         /\ pass[p].pc = "upsert" =>
              /\ UNCHANGED << onChainEvent, readModel >>
              /\ syncState # NoRow => UNCHANGED syncState
         /\ (/\ pass[p].pc = "tip"
             /\ pass[p].state + 1 > Max(tip - CONFIRMATIONS, 0)) =>
              /\ pass'[p].pc \notin {"fetch", "record", "project", "advance", "throttle"}
              /\ UNCHANGED << syncState, onChainEvent, readModel >>]_vars

\* C32 witness: a timer pass read the cursor 3 with every log up to block 3
\* recorded, the tip is 5, and the pass is at its getBlockNumber call.
PassStartsCaughtUp ==
  /\ phase = "polling"
  /\ ticked
  /\ tip = 3 + CONFIRMATIONS
  /\ syncState # NoRow
  /\ syncState.lastProcessedBlock = 3
  /\ \A i \in Events : HasRow(onChainEvent, i)
  /\ \E p \in Passes :
       /\ pass[p].pc = "tip"
       /\ pass[p].state = 3
       /\ \A q \in Passes \ {p} : pass[q].pc = "idle"

\* C33: In-order application.  The entries of a fetched range are recorded
\* and projected one at a time in the order returned: when entry j has a
\* ledger row, every entry before it has a row and its projection has
\* finished; and an entry of a later range is recorded only after the cursor
\* commit of the range before it, so a recorded entry lies at most one range
\* width above the committed cursor.
InOrderApplication ==
  \A j \in Events :
    HasRow(onChainEvent, j) =>
      /\ \A i \in Events :
           i < j => /\ HasRow(onChainEvent, i)
                    /\ projected[i].done >= 1
      /\ syncState # NoRow
      /\ ChainLog[j].blockNumber <= syncState.lastProcessedBlock + MAX_LOG_BLOCK_RANGE

\* the snapshot row as the projection of an event finds it after its upsert
\* at blockNumber: the stored row, or the created one
SnapshotAt(rm, blockNumber) ==
  IF rm.snapshot = NoRow
  THEN [lastIndexedBlock |-> blockNumber, stage |-> 0, totalVoters |-> 0,
        totalVotes |-> 0, winnerComputed |-> FALSE, winningProposalId |-> 0]
  ELSE [lastIndexedBlock |-> blockNumber, stage |-> rm.snapshot.stage,
        totalVoters |-> rm.snapshot.totalVoters,
        totalVotes |-> rm.snapshot.totalVotes,
        winnerComputed |-> rm.snapshot.winnerComputed,
        winningProposalId |-> rm.snapshot.winningProposalId]

\* C34: Stage and finalization frame.  Applying StageChanged changes only
\* Snapshot.stage (to the event's stage) and lastIndexedBlock; applying
\* Finalized changes only winnerComputed (to true), winningProposalId (to
\* the event's id) and lastIndexedBlock; neither changes totalVoters,
\* totalVotes or any Voter, Vote or Proposal row.
StageAndFinalizedFrame ==
  /\ LastApplied("StageChanged") =>
       applied.rm =
         [applied.before EXCEPT
            !.snapshot = [SnapshotAt(applied.before, LastLog.blockNumber) EXCEPT
                            !.stage = LastLog.args.newStage]]
  /\ LastApplied("Finalized") =>
       applied.rm =
         [applied.before EXCEPT
            !.snapshot = [SnapshotAt(applied.before, LastLog.blockNumber) EXCEPT
                            !.winnerComputed = TRUE,
                            !.winningProposalId = LastLog.args.winningProposalId]]

\* C34 witness: a vote for proposal 1, then StageChanged(2), then
\* Finalized(1): the totals and the rows of the vote are as the vote left
\* them, the stage is 2 and the winner is set.
VoteThenStageThenFinalized ==
  /\ Len(applied.logs) = 3
  /\ DecodeLog(applied.logs[1]) = "VoteCast"
  /\ applied.logs[1].args.proposalId = 1
  /\ DecodeLog(applied.logs[2]) = "StageChanged"
  /\ applied.logs[2].args.newStage = 2
  /\ LastApplied("Finalized")
  /\ LastLog.args.winningProposalId = 1
  /\ applied.rm.snapshot =
       [lastIndexedBlock |-> 109, stage |-> 2, totalVoters |-> 0, totalVotes |-> 1,
        winnerComputed |-> TRUE, winningProposalId |-> 1]
  /\ applied.rm.proposal[1].voteCount = applied.logs[1].args.weight

\* C35: Every applied event, whatever its kind, sets Snapshot.lastIndexedBlock
\* to the event's block number; when the snapshot row was absent it is
\* created with stage 0, zero totals and no winner before the event's own
\* change; and an event of an unknown kind changes nothing else.
EveryEventStampsSnapshot ==
  Len(applied.logs) > 0 =>
    LET old  == applied.before
        new  == applied.rm
        kind == DecodeLog(LastLog)
    IN  /\ new.snapshot # NoRow
        /\ new.snapshot.lastIndexedBlock = LastLog.blockNumber
        /\ old.snapshot = NoRow =>
             /\ new.snapshot.stage =
                  (IF kind = "StageChanged" THEN LastLog.args.newStage ELSE 0)
             /\ new.snapshot.totalVoters = (IF kind = "VoterRegistered" THEN 1 ELSE 0)
             /\ new.snapshot.totalVotes = (IF kind = "VoteCast" THEN 1 ELSE 0)
             /\ new.snapshot.winnerComputed = (kind = "Finalized")
             /\ new.snapshot.winningProposalId =
                  (IF kind = "Finalized" THEN LastLog.args.winningProposalId ELSE 0)
        /\ kind \notin {"StageChanged", "VoterRegistered", "VoteCast", "Finalized"} =>
             new = [old EXCEPT !.snapshot = SnapshotAt(old, LastLog.blockNumber)]

\* C35 witness: an unknown event creates the snapshot, a registration is
\* counted, and a second unknown event moves lastIndexedBlock only.
UnknownEventsStampOnly ==
  /\ Len(applied.logs) = 3
  /\ DecodeLog(applied.logs[1]) = "UnknownEvent"
  /\ DecodeLog(applied.logs[2]) = "VoterRegistered"
  /\ LastApplied("UnknownEvent")
  /\ applied.before.snapshot.lastIndexedBlock = 107
  /\ applied.rm.snapshot =
       [lastIndexedBlock |-> 109, stage |-> 0, totalVoters |-> 1, totalVotes |-> 0,
        winnerComputed |-> FALSE, winningProposalId |-> 0]
  /\ applied.rm.voter = applied.before.voter

\* C36: Backoff arithmetic.  The wait before retry n (n = 0, 1, ...) is
\* min(RPC_BACKOFF_BASE_MS * 2^n, RPC_BACKOFF_CAP_MS); the waits of one call
\* are non-decreasing in n and never exceed the cap.
BackoffIsCappedDoubling ==
  call.status \in {"backoff", "thrown"} =>
    \A k \in 1..Len(call.waits) :
      /\ call.waits[k] = Min(call.cfg.base * (2 ^ (k - 1)), call.cfg.cap)
      /\ call.waits[k] <= call.cfg.cap
      /\ k > 1 => call.waits[k - 1] <= call.waits[k]

\* C36 witness: with base 1500, cap 30000 and 8 retries the call gave up
\* after the waits 1500, 3000, 6000, 12000, 24000 and three times 30000.
DefaultBackoffReachesCap ==
  /\ call.status = "thrown"
  /\ call.cfg = [base |-> RPC_BACKOFF_BASE_MS, cap |-> RPC_BACKOFF_CAP_MS,
                 maxRetries |-> 8]
  /\ call.waits = << 1500, 3000, 6000, 12000, 24000, 30000, 30000, 30000 >>

\* the sum of the weights of the recorded VoteCast events for proposal i
RECURSIVE RecordedWeight(_, _)
RecordedWeight(i, k) ==
  IF k = 0 THEN 0
  ELSE RecordedWeight(i, k - 1)
       + (IF /\ << applied.logs[k].txHash, applied.logs[k].logIndex >> \in applied.rows
             /\ applied.logs[k].args.proposalId = i
          THEN applied.logs[k].args.weight ELSE 0)

\* C37: No lost read-modify-write.  Also when a tick starts a pass while an
\* earlier pass is running, in every quiescent state (no pass between two
\* store calls) the voteCount of each proposal equals the sum of the weights
\* of the recorded VoteCast events for that proposal.
NoLostVoteCount ==
  (\A p \in Passes : applied.walk[p].pc \in {"idle", "done"}) =>
    \A i \in ProposalIds :
      (IF applied.rm.proposal[i] = NoRow THEN 0 ELSE applied.rm.proposal[i].voteCount)
        = RecordedWeight(i, Len(applied.logs))

\* the passes inside the while loop of catchUpOnce
InLoop(p) == pass[p].pc \in {"fetch", "record", "project", "advance", "throttle"}

\* C38: Bounded work.  withRetry calls fn at most RPC_MAX_RETRIES + 1 times:
\* the call in flight is preceded by at most RPC_MAX_RETRIES failed ones; and
\* the loop of a pass that read the cursor and the safe tip runs at most
\* ceil((safeTip - cursor) / MAX_LOG_BLOCK_RANGE) iterations.
BoundedRetriesAndIterations ==
  \A p \in Passes :
    /\ pass[p].attempt + 1 <= RPC_MAX_RETRIES + 1
    /\ pass[p].retries <= RPC_MAX_RETRIES
    /\ InLoop(p) =>
         /\ pass[p].iter >= 1
         /\ pass[p].iter <=
              (pass[p].safeLatest - pass[p].state + MAX_LOG_BLOCK_RANGE - 1)
                \div MAX_LOG_BLOCK_RANGE
    /\ ~InLoop(p) => pass[p].iter = 0

\* C38 witness: a pass that read cursor 0 and safe tip 3 is in its second
\* and last iteration, whose fetch succeeded at the last call allowed.
LastIterationAfterAllRetries ==
  \E p \in Passes :
    /\ pass[p].pc = "advance"
    /\ pass[p].state = 0
    /\ pass[p].safeLatest = 3
    /\ pass[p].iter = 2
    /\ pass[p].toBlock = 3
    /\ pass[p].retries = RPC_MAX_RETRIES

\* C39: Winner finality.  In every state the contract can reach, by any
\* calls at any timestamps (manual stage changes and disableManualMode
\* included), once winnerComputed is true no vote() of any account for any
\* proposal succeeds, and winningProposalId is a proposal with the maximum
\* voteCount.
WinnerIsFinal ==
  (ballot.status = "deployed" /\ ballot.c.winnerComputed) =>
    /\ \A a \in Accounts : \A i \in ProposalIds :
         vote(ballot.c, a, i, ballot.now).error # ""
    /\ \A i \in ProposalIds :
         ballot.c.voteCount[i] <= ballot.c.voteCount[ballot.c.winningProposalId]

\* C40: Read-model turnout is bounded.  After the indexer has applied every
\* event the contract emitted, Snapshot.totalVotes <= Snapshot.totalVoters,
\* and the participationRate of getStats is at most 1.
TurnoutIsBounded ==
  (/\ applied.status = "run"
   /\ Len(applied.logs) = Len(ballot.logs)
   /\ applied.rm.snapshot # NoRow) =>
    /\ applied.rm.snapshot.totalVotes <= applied.rm.snapshot.totalVoters
    /\ ParticipationRate(applied.rm.snapshot) <= 10000
====
